---- MODULE Spec2Model ----
(***************************************************************************)
(* A model of the retry/error core and of the streaming paths of unillm.   *)
(*                                                                         *)
(*   errors.ts  (src/unnamed/part_006): LLMProviderError, isRetryableCode, *)
(*              wrapError                                                  *)
(*   retry.ts   (src/unnamed/part_008): calculateDelay, withRetry,         *)
(*              withRetryResult                                            *)
(*                                                                         *)
(*   decoders   (src/unnamed/part_009, src/src/streaming-handlers.ts,      *)
(*              src/src/models.ts): the streaming decoders, the stream()   *)
(*              of the builder, generate(), cloudflareStreamToText         *)
(*                                                                         *)
(* JavaScript values are records tagged by `kind`.  An optional value      *)
(* (undefined or present) is a sequence of length 0 or 1.  Delays are kept *)
(* in units of 1/Scale ms so that the jitter factor 0.5 + Math.random()    *)
(* stays an integer.                                                       *)
(***************************************************************************)
EXTENDS Integers, Sequences, FiniteSets

VARIABLES
    config,        \* the RetryConfig passed to withRetry / withRetryResult
    pc,            \* position of the running call
    attempt,       \* withRetry: the for-loop variable
    fnResult,      \* how the last invocation of fn settled (optional)
    wrappedError,  \* withRetry: wrappedError of the last catch (optional)
    lastError,     \* withRetry: lastError (optional)
    delay,         \* withRetry: delay of the last catch, in 1/Scale ms
    rnd,           \* the last Math.random() draw, as a multiple of 1/RandSteps
    settled,       \* the promise returned by withRetry
    attempts,      \* withRetryResult: the attempts counter
    retryResult,   \* withRetryResult: the RetryResult it resolved with (optional)
    now,           \* the clock, in 1/Scale ms
    calls,         \* observed: number of invocations of fn
    failures,      \* observed: number of invocations of fn that failed
    retryableFailures, \* observed: failures whose classified code was retryable
    waits,         \* observed: the delays slept, in order
    onRetryCount,  \* observed: number of onRetry calls
    onRetryArgs,   \* observed: arguments of the last onRetry call (optional)
    script,        \* a scripted fn: its outcomes by invocation (<<>>: any fn)
    randoms,       \* a scripted Math.random: its draws by attempt (<<>>: any)
    prev,          \* what the previous run of the same script did (optional)
    entry,         \* the streaming or generate function that was called
    modelSpec,     \* its ModelSpec argument, parsed (optional)
    credentials,   \* the fields of its Credentials argument that are set
    response,      \* the HTTP response the provider gives (optional)
    events,        \* the events of the response body, in wire order
    terminated,    \* whether the body ends with a newline
    requests,      \* observed: number of fetch calls
    decoder,       \* the decoder that reads the body
    body,          \* the part of the body no read has delivered yet
    bodyReader,    \* the reader of the HTTP response body
    buffer,        \* the decoder's carry-over buffer
    out,           \* what the decoder has enqueued or yielded, in order
    streamState,   \* the stream handed to the consumer
    consumer,      \* the consumer's reader
    consumed,      \* number of chunks the consumer has read
    lateReads,     \* observed: reads of the body after the consumer cancelled
    callee,        \* the utility function or object that is exercised
    input,         \* the arguments of the last call of it
    output,        \* what the last call returned or threw (optional)
    store          \* the state of the utility object (optional)

vars == <<config, pc, attempt, fnResult, wrappedError, lastError, delay, rnd,
          settled, attempts, retryResult, now, calls, failures,
          retryableFailures, waits, onRetryCount, onRetryArgs, script,
          randoms, prev, entry, modelSpec, credentials, response, events,
          terminated, requests, decoder, body, bodyReader, buffer, out,
          streamState, consumer, consumed, lateReads, callee, input, output,
          store>>

\* the variables of a streaming or generate call
streamVars == <<entry, modelSpec, credentials, response, events, terminated,
                requests, decoder, body, bodyReader, buffer, out,
                streamState, consumer, consumed, lateReads>>

\* the variables of a call of a utility
utilVars == <<callee, input, output, store>>

\* the variables that only withRetry uses
retryVars == <<config, attempt, fnResult, wrappedError, lastError, delay, rnd,
               attempts, retryResult, now, calls, failures,
               retryableFailures, waits, onRetryCount, onRetryArgs, script,
               randoms, prev>>

-----------------------------------------------------------------------------
(* Bounds of the model.                                                    *)

\* largest config.maxRetries explored
MaxRetriesBound == 2
\* Math.random() draws k / RandSteps for k in 0 .. RandSteps - 1
RandSteps == 4
\* largest attempt calculateDelay is applied to on its own
MaxAttempt == 10

Scale == 2 * RandSteps

None == <<>>
Some(x) == <<x>>

Min(a, b) == IF a <= b THEN a ELSE b

RECURSIVE Pow2(_)
Pow2(n) == IF n <= 0 THEN 1 ELSE 2 * Pow2(n - 1)

-----------------------------------------------------------------------------
(* errors.ts                                                               *)

LLMErrorCode ==
    {"RATE_LIMIT", "AUTH", "TIMEOUT", "INVALID_RESPONSE", "NETWORK",
     "SERVER_ERROR", "VALIDATION", "UNKNOWN"}

isRetryableCodeNoServerError(code) ==
    CASE code \in {"RATE_LIMIT", "TIMEOUT", "NETWORK"} -> TRUE
      [] OTHER -> FALSE

isRetryableCode(code) ==
    CASE code = "RATE_LIMIT" -> TRUE
      [] code = "TIMEOUT" -> TRUE
      [] code = "NETWORK" -> TRUE
      [] code = "SERVER_ERROR" -> TRUE
      [] code = "AUTH" -> FALSE
      [] code = "INVALID_RESPONSE" -> FALSE
      [] code = "VALIDATION" -> FALSE
      [] code = "UNKNOWN" -> FALSE

\* new LLMProviderError(options); an absent option is None
NewLLMProviderError(message, code, provider, statusCode, retryable, cause) ==
    [kind |-> "LLMProviderError",
     message |-> message,
     code |-> code,
     provider |-> IF provider = None THEN "unknown" ELSE provider[1],
     statusCode |-> statusCode,
     retryable |-> IF retryable = None THEN isRetryableCode(code)
                   ELSE retryable[1],
     cause |-> cause]

\* new Error(message); a message is a sequence of words
NewError(message) == [kind |-> "Error", message |-> message]

\* String.prototype.toLowerCase, word by word
LowerWord(w) ==
    CASE w = "Rate limit" -> "rate limit"
      [] w = "Request" -> "request"
      [] w = "Invalid" -> "invalid"
      [] w = "API key" -> "api key"
      [] w = "Network" -> "network"
      [] w = "ECONNREFUSED" -> "econnrefused"
      [] w = "Internal Server" -> "internal server"
      [] w = "Error" -> "error"
      [] w = "openaiApiKey" -> "openaiapikey"
      [] w = "groqApiKey" -> "groqapikey"
      [] w = "geminiApiKey" -> "geminiapikey"
      [] w = "cloudflareApiKey" -> "cloudflareapikey"
      [] w = "cloudflareEmail" -> "cloudflareemail"
      [] w = "cloudflareAccountId" -> "cloudflareaccountid"
      [] w = "OpenAI" -> "openai"
      [] w = "Groq" -> "groq"
      [] w = "Gemini" -> "gemini"
      [] w = "Cloudflare" -> "cloudflare"
      [] w = "Streaming" -> "streaming"
      [] w = "API" -> "api"
      [] w = "Unauthorized" -> "unauthorized"
      [] w = "Service" -> "service"
      [] w = "RATE LIMIT" -> "rate limit"
      [] w = "Timeout" -> "timeout"
      [] w = "Timed Out" -> "timed out"
      [] w = "Authentication" -> "authentication"
      [] w = "ENOTFOUND" -> "enotfound"
      [] w = "Fetch Failed" -> "fetch failed"
      [] w = "Boom" -> "boom"
      [] OTHER -> w

keepCase(message) == message

toLowerCase(message) == [i \in DOMAIN message |-> LowerWord(message[i])]

\* String.prototype.includes, for a pattern that is one word
includes(message, pattern) == \E i \in DOMAIN message : message[i] = pattern

\* String(error) of a thrown value that is no Error
String(error) == <<error.text>>

wrapError(error, provider, context) ==
    IF error.kind = "LLMProviderError" THEN error
    ELSE IF error.kind = "Error" THEN
        LET message == IF context # None
                       THEN <<context[1], ": ">> \o error.message
                       ELSE error.message
            lowerMessage == toLowerCase(error.message)
        IN  IF includes(lowerMessage, "rate limit") \/ includes(lowerMessage, "429")
            THEN NewLLMProviderError(message, "RATE_LIMIT", provider, Some(429),
                                     None, Some(error))
            ELSE IF includes(lowerMessage, "timeout")
                    \/ includes(lowerMessage, "timed out")
            THEN NewLLMProviderError(message, "TIMEOUT", provider, None, None,
                                     Some(error))
            ELSE IF includes(lowerMessage, "unauthorized")
                    \/ includes(lowerMessage, "authentication")
                    \/ includes(lowerMessage, "api key")
                    \/ includes(lowerMessage, "401")
                    \/ includes(lowerMessage, "403")
            THEN NewLLMProviderError(message, "AUTH", provider, None, None,
                                     Some(error))
            ELSE IF includes(lowerMessage, "network")
                    \/ includes(lowerMessage, "econnrefused")
                    \/ includes(lowerMessage, "enotfound")
                    \/ includes(lowerMessage, "fetch failed")
            THEN NewLLMProviderError(message, "NETWORK", provider, None, None,
                                     Some(error))
            ELSE IF includes(lowerMessage, "500")
                    \/ includes(lowerMessage, "internal server")
            THEN NewLLMProviderError(message, "SERVER_ERROR", provider,
                                     Some(500), None, Some(error))
            ELSE NewLLMProviderError(message, "UNKNOWN", provider, None, None,
                                     Some(error))
    ELSE
        LET message == IF context # None
                       THEN <<context[1], ": ">> \o String(error)
                       ELSE String(error)
        IN  NewLLMProviderError(message, "UNKNOWN", provider, None, None, None)

-----------------------------------------------------------------------------
(* retry.ts: configuration and delay                                       *)

DEFAULT_MAX_RETRIES == 3
DEFAULT_BASE_DELAY == 100
DEFAULT_MAX_DELAY == 10000

DEFAULT_RETRYABLE_CODES == {"RATE_LIMIT", "TIMEOUT", "NETWORK", "SERVER_ERROR"}

calculateDelayCapBeforeJitter(att, baseDelay, maxDelay, random) ==
    Min(baseDelay * Pow2(att), maxDelay) * (RandSteps + 2 * random)

\* `random` is the Math.random() draw random / RandSteps; the result is in
\* 1/Scale ms
calculateDelay(att, baseDelay, maxDelay, random) ==
    LET exponentialDelay == baseDelay * Pow2(att)
        jitter == RandSteps + 2 * random          \* (0.5 + Math.random()) * Scale
        delayWithJitter == exponentialDelay * jitter
    IN  Min(delayWithJitter, maxDelay * Scale)

\* the delayFn a caller may supply, by name
DelayFns == {"constant", "linear"}
delayFnApply(name, att, baseDelay) ==
    IF name = "constant" THEN 50 * Scale
    ELSE baseDelay * (att + 1) * Scale

\* const retryableCodes = retryOn ?? DEFAULT_RETRYABLE_CODES
retryableCodes(cfg) ==
    IF cfg.retryOn = None THEN DEFAULT_RETRYABLE_CODES ELSE cfg.retryOn[1]

isLastAttempt(att, maxRetries) == att = maxRetries

shouldRetryIgnoringCode(att, maxRetries, codes, code) ==
    ~isLastAttempt(att, maxRetries)

shouldRetry(att, maxRetries, codes, code) ==
    ~isLastAttempt(att, maxRetries) /\ code \in codes

sameAttempt(att) == att

\* attempt++ of the for loop
nextAttempt(att) == att + 1

retriedAfterAnyAttempt(n) == n > 0

\* retried: attempts > 1
retried(n) == n > 1

-----------------------------------------------------------------------------
(* The inputs: what fn may do, and the configurations                      *)

\* values fn may resolve with
Values == {[kind |-> "value", text |-> "success"],
           [kind |-> "value", text |-> "other"]}

\* LLMProviderError instances fn may throw: one per code, and two whose
\* retryable flag was overridden at construction
ThrownLLMErrors ==
    {NewLLMProviderError(<<"Error">>, c, None, None, None, None) :
        c \in LLMErrorCode}
    \cup {NewLLMProviderError(<<"Auth">>, "AUTH", None, None, Some(TRUE), None),
          NewLLMProviderError(<<"Rate limit">>, "RATE_LIMIT", None, Some(429),
                              Some(FALSE), None)}

\* plain Error instances fn may throw
ThrownErrors ==
    {NewError(<<"Network", "error", "ECONNREFUSED">>),
     NewError(<<"Rate limit", "exceeded">>),
     NewError(<<"Request", "timed out">>),
     NewError(<<"Invalid", "API key">>),
     NewError(<<"Internal Server", "Error">>),
     NewError(<<"boom">>)}

\* a thrown value that is no Error
ThrownOthers == {[kind |-> "string", text |-> "String error"]}

Thrown == ThrownLLMErrors \cup ThrownErrors \cup ThrownOthers

Outcomes == {[ok |-> TRUE, value |-> v] : v \in Values}
            \cup {[ok |-> FALSE, value |-> e] : e \in Thrown}

\* what a throwing onRetry callback throws
CallbackError == NewError(<<"onRetry", "failed">>)

OnRetryFns == {"observer", "throws"}

Configs ==
    [maxRetries : {None} \cup {Some(n) : n \in 0 .. MaxRetriesBound},
     baseDelay : {None, Some(10)},
     maxDelay : {None, Some(150)},
     retryOn : {None, Some({"RATE_LIMIT"}), Some({"AUTH", "TIMEOUT"})},
     onRetry : {None} \cup {Some(f) : f \in OnRetryFns},
     delayFn : {None} \cup {Some(f) : f \in DelayFns}]

\* const { maxRetries = DEFAULT_RETRY_CONFIG.maxRetries, ... } = config
maxRetriesOf(cfg) ==
    IF cfg.maxRetries = None THEN DEFAULT_MAX_RETRIES ELSE cfg.maxRetries[1]
baseDelayOf(cfg) ==
    IF cfg.baseDelay = None THEN DEFAULT_BASE_DELAY ELSE cfg.baseDelay[1]
maxDelayOf(cfg) ==
    IF cfg.maxDelay = None THEN DEFAULT_MAX_DELAY ELSE cfg.maxDelay[1]

Pending == [state |-> "pending", value |-> None]

\* no utility is exercised
NoUtility ==
    /\ callee = "none"
    /\ input = None
    /\ output = None
    /\ store = None

\* no streaming or generate call is under way
NoStream ==
    /\ entry = "none"
    /\ modelSpec = None
    /\ credentials = {}
    /\ response = None
    /\ events = <<>>
    /\ terminated = TRUE
    /\ requests = 0
    /\ decoder = "none"
    /\ body = <<>>
    /\ bodyReader = "none"
    /\ buffer = <<>>
    /\ out = <<>>
    /\ streamState = "none"
    /\ consumer = "none"
    /\ consumed = 0
    /\ lateReads = 0

\* the state of a call that has not yet invoked fn
Fresh ==
    /\ pc = "call"
    /\ attempt = 0
    /\ fnResult = None
    /\ wrappedError = None
    /\ lastError = None
    /\ delay = 0
    /\ rnd = 0
    /\ settled = Pending
    /\ attempts = 0
    /\ retryResult = None
    /\ now = 0
    /\ calls = 0
    /\ failures = 0
    /\ retryableFailures = 0
    /\ waits = <<>>
    /\ onRetryCount = 0
    /\ onRetryArgs = None

\* withRetryResult(fn, config) has been called with any fn and any config
Init ==
    /\ config \in Configs
    /\ Fresh
    /\ script = <<>>
    /\ randoms = <<>>
    /\ prev = None
    /\ NoStream
    /\ NoUtility

-----------------------------------------------------------------------------
(* withRetryResult / withRetry, statement by statement                     *)

\* the wrapper of withRetryResult runs: attempts++, then fn() is called and
\* settles
InvokeFn ==
    /\ pc = "call"
    /\ \E o \in (IF script = <<>> THEN Outcomes ELSE {script[calls + 1]}) :
        /\ fnResult' = Some(o)
        /\ failures' = failures + (IF o.ok THEN 0 ELSE 1)
    /\ attempts' = attempts + 1
    /\ calls' = calls + 1
    /\ pc' = "await"
    /\ UNCHANGED streamVars
    /\ UNCHANGED utilVars
    /\ UNCHANGED <<config, attempt, wrappedError, lastError, delay, rnd,
                   settled, retryResult, now, retryableFailures, waits,
                   onRetryCount, onRetryArgs, script, randoms, prev>>

\* a return that happens only for a truthy value: `const r = await fn();
\* if (r) return r;`, the value "other" standing for a falsy one
ReturnValueIfTruthy ==
    /\ pc = "await"
    /\ fnResult[1].ok
    /\ IF fnResult[1].value.text = "other" /\ attempt < maxRetriesOf(config)
       THEN /\ attempt' = attempt + 1
            /\ pc' = "call"
            /\ settled' = settled
       ELSE /\ attempt' = attempt
            /\ pc' = "fulfilled"
            /\ settled' = [state |-> "fulfilled",
                           value |-> Some(fnResult[1].value)]
    /\ UNCHANGED streamVars
    /\ UNCHANGED utilVars
    /\ UNCHANGED <<config, fnResult, wrappedError, lastError, delay,
                   rnd, attempts, retryResult, now, calls, failures,
                   retryableFailures, waits, onRetryCount, onRetryArgs,
                   script, randoms, prev>>

\* return await fn(), fn having resolved
ReturnValue ==
    /\ pc = "await"
    /\ fnResult[1].ok
    /\ settled' = [state |-> "fulfilled", value |-> Some(fnResult[1].value)]
    /\ pc' = "fulfilled"
    /\ UNCHANGED streamVars
    /\ UNCHANGED utilVars
    /\ UNCHANGED <<config, attempt, fnResult, wrappedError, lastError, delay,
                   rnd, attempts, retryResult, now, calls, failures,
                   retryableFailures, waits, onRetryCount, onRetryArgs,
                   script, randoms, prev>>

\* catch (error): wrap, decide, and throw unless the call is to be retried
CatchError ==
    /\ pc = "await"
    /\ ~fnResult[1].ok
    /\ LET wrapped == wrapError(fnResult[1].value, None, None)
           codes == retryableCodes(config)
       IN  /\ wrappedError' = Some(wrapped)
           /\ lastError' = Some(wrapped)
           /\ retryableFailures' =
                retryableFailures + (IF wrapped.code \in codes THEN 1 ELSE 0)
           /\ IF shouldRetry(attempt, maxRetriesOf(config), codes, wrapped.code)
              THEN /\ pc' = "delay"
                   /\ settled' = settled
              ELSE /\ pc' = "rejected"
                   /\ settled' = [state |-> "rejected", value |-> Some(wrapped)]
    /\ UNCHANGED streamVars
    /\ UNCHANGED utilVars
    /\ UNCHANGED <<config, attempt, fnResult, delay, rnd, attempts,
                   retryResult, now, calls, failures, waits, onRetryCount,
                   onRetryArgs, script, randoms, prev>>

\* const delay = delayFn ? delayFn(attempt, baseDelay)
\*                       : calculateDelay(attempt, baseDelay, maxDelay)
ComputeDelay ==
    /\ pc = "delay"
    /\ IF config.delayFn # None
       THEN /\ delay' = delayFnApply(config.delayFn[1], attempt, baseDelayOf(config))
            /\ rnd' = rnd
       ELSE \E k \in (IF randoms = <<>> THEN 0 .. RandSteps - 1
                      ELSE {randoms[attempt + 1]}) :
                /\ rnd' = k
                /\ delay' = calculateDelay(attempt, baseDelayOf(config),
                                           maxDelayOf(config), k)
    /\ pc' = "notify"
    /\ UNCHANGED streamVars
    /\ UNCHANGED utilVars
    /\ UNCHANGED <<config, attempt, fnResult, wrappedError, lastError, settled,
                   attempts, retryResult, now, calls, failures,
                   retryableFailures, waits, onRetryCount, onRetryArgs,
                   script, randoms, prev>>

\* if (onRetry) onRetry(attempt + 1, wrappedError, delay); an exception of the
\* callback is raised inside the catch block and leaves withRetry
NotifyOnRetry ==
    /\ pc = "notify"
    /\ IF config.onRetry = None
       THEN /\ pc' = "sleep"
            /\ UNCHANGED <<onRetryCount, onRetryArgs, settled>>
       ELSE /\ onRetryCount' = onRetryCount + 1
            /\ onRetryArgs' = Some(<<attempt + 1, wrappedError[1], delay>>)
            /\ IF config.onRetry[1] = "throws"
               THEN /\ pc' = "rejected"
                    /\ settled' = [state |-> "rejected",
                                   value |-> Some(CallbackError)]
               ELSE /\ pc' = "sleep"
                    /\ settled' = settled
    /\ UNCHANGED streamVars
    /\ UNCHANGED utilVars
    /\ UNCHANGED <<config, attempt, fnResult, wrappedError, lastError, delay,
                   rnd, attempts, retryResult, now, calls, failures,
                   retryableFailures, waits, script, randoms, prev>>

\* await sleep(delay); then attempt++ and the loop test; below the loop:
\* throw lastError ?? new Error("Retry failed")
SleepDelay ==
    /\ pc = "sleep"
    /\ waits' = Append(waits, delay)
    /\ now' = now + delay
    /\ attempt' = nextAttempt(attempt)
    /\ IF attempt' <= maxRetriesOf(config)
       THEN /\ pc' = "call"
            /\ settled' = settled
       ELSE /\ pc' = "rejected"
            /\ settled' = [state |-> "rejected",
                           value |-> IF lastError # None THEN lastError
                                     ELSE Some(NewError(<<"Retry failed">>))]
    /\ UNCHANGED streamVars
    /\ UNCHANGED utilVars
    /\ UNCHANGED <<config, fnResult, wrappedError, lastError, delay, rnd,
                   attempts, retryResult, calls, failures, retryableFailures,
                   onRetryCount, onRetryArgs, script, randoms, prev>>

\* withRetryResult: withRetry resolved; return the metadata object
withRetryResultReturn ==
    /\ pc = "fulfilled"
    /\ retryResult' = Some([result |-> settled.value[1],
                            attempts |-> attempts,
                            totalTime |-> now - 0,
                            retried |-> retried(attempts)])
    /\ pc' = "done"
    /\ UNCHANGED streamVars
    /\ UNCHANGED utilVars
    /\ UNCHANGED <<config, attempt, fnResult, wrappedError, lastError, delay,
                   rnd, settled, attempts, now, calls, failures,
                   retryableFailures, waits, onRetryCount, onRetryArgs,
                   script, randoms, prev>>

\* withRetryResult: withRetry rejected; the rejection propagates
withRetryResultThrow ==
    /\ pc = "rejected"
    /\ pc' = "done"
    /\ UNCHANGED streamVars
    /\ UNCHANGED utilVars
    /\ UNCHANGED <<config, attempt, fnResult, wrappedError, lastError, delay,
                   rnd, settled, attempts, retryResult, now, calls, failures,
                   retryableFailures, waits, onRetryCount, onRetryArgs,
                   script, randoms, prev>>

Next ==
    \/ InvokeFn
    \/ ReturnValue
    \/ CatchError
    \/ ComputeDelay
    \/ NotifyOnRetry
    \/ SleepDelay
    \/ withRetryResultReturn
    \/ withRetryResultThrow

Spec == Init /\ [][Next]_vars

-----------------------------------------------------------------------------
(* calculateDelay on its own                                               *)

BaseDelays == {1, 10, 100}
MaxDelays == {150, 1000, 10000}

\* calculateDelay(attempt, baseDelay, maxDelay) is about to be called
InitDelay ==
    /\ config \in [maxRetries : {None},
                   baseDelay : {Some(b) : b \in BaseDelays},
                   maxDelay : {Some(m) : m \in MaxDelays},
                   retryOn : {None}, onRetry : {None}, delayFn : {None}]
    /\ pc = "calculateDelay"
    /\ attempt \in 0 .. MaxAttempt
    /\ fnResult = None
    /\ wrappedError = None
    /\ lastError = None
    /\ delay = 0
    /\ rnd = 0
    /\ settled = Pending
    /\ attempts = 0
    /\ retryResult = None
    /\ now = 0
    /\ calls = 0
    /\ failures = 0
    /\ retryableFailures = 0
    /\ waits = <<>>
    /\ onRetryCount = 0
    /\ onRetryArgs = None
    /\ script = <<>>
    /\ randoms = <<>>
    /\ prev = None
    /\ NoStream
    /\ NoUtility

ApplyCalculateDelay ==
    /\ pc = "calculateDelay"
    /\ \E k \in 0 .. RandSteps - 1 :
        /\ rnd' = k
        /\ delay' = calculateDelay(attempt, baseDelayOf(config),
                                   maxDelayOf(config), k)
    /\ pc' = "calculated"
    /\ UNCHANGED streamVars
    /\ UNCHANGED utilVars
    /\ UNCHANGED <<config, attempt, fnResult, wrappedError, lastError, settled,
                   attempts, retryResult, now, calls, failures,
                   retryableFailures, waits, onRetryCount, onRetryArgs,
                   script, randoms, prev>>

NextDelay == ApplyCalculateDelay

SpecDelay == InitDelay /\ [][NextDelay]_vars

-----------------------------------------------------------------------------
(* The same scripted fn and the same Math.random draws, run twice: once    *)
(* with an onRetry callback and once without                               *)

ScriptOutcomes ==
    {[ok |-> TRUE, value |-> [kind |-> "value", text |-> "success"]],
     [ok |-> FALSE,
      value |-> NewLLMProviderError(<<"Error">>, "RATE_LIMIT", None, None,
                                    None, None)],
     [ok |-> FALSE, value |-> NewError(<<"Invalid", "API key">>)]}

InitObserver ==
    /\ config \in [maxRetries : {Some(n) : n \in 0 .. MaxRetriesBound},
                   baseDelay : {None},
                   maxDelay : {None, Some(150)},
                   retryOn : {None},
                   onRetry : {Some(f) : f \in OnRetryFns},
                   delayFn : {None, Some("constant")}]
    /\ Fresh
    /\ script \in [1 .. MaxRetriesBound + 1 -> ScriptOutcomes]
    /\ randoms \in [1 .. MaxRetriesBound + 1 -> 0 .. RandSteps - 1]
    /\ prev = None
    /\ NoStream
    /\ NoUtility

\* what a caller can observe of a finished call
Observed == [calls |-> calls, waits |-> waits, settled |-> settled]

\* the first call is over: withRetryResult(fn, config) is called again with
\* the same config except that onRetry is left out
CallAgainWithoutOnRetry ==
    /\ pc = "done"
    /\ prev = None
    /\ prev' = Some(Observed)
    /\ config' = [config EXCEPT !.onRetry = None]
    /\ pc' = "call"
    /\ attempt' = 0
    /\ fnResult' = None
    /\ wrappedError' = None
    /\ lastError' = None
    /\ delay' = 0
    /\ rnd' = 0
    /\ settled' = Pending
    /\ attempts' = 0
    /\ retryResult' = None
    /\ now' = 0
    /\ calls' = 0
    /\ failures' = 0
    /\ retryableFailures' = 0
    /\ waits' = <<>>
    /\ onRetryCount' = 0
    /\ onRetryArgs' = None
    /\ UNCHANGED streamVars
    /\ UNCHANGED utilVars
    /\ UNCHANGED <<script, randoms>>

NextObserver ==
    \/ InvokeFn
    \/ ReturnValue
    \/ CatchError
    \/ ComputeDelay
    \/ NotifyOnRetry
    \/ SleepDelay
    \/ withRetryResultReturn
    \/ withRetryResultThrow
    \/ CallAgainWithoutOnRetry

SpecObserver == InitObserver /\ [][NextObserver]_vars

-----------------------------------------------------------------------------
(* Properties of withRetry, checked under Spec                             *)

\* C1: with maxRetries = N >= 0 the operation is invoked at most N + 1
\* times, whatever it returns or throws.
C1_AtMostNPlusOneCalls == calls <= maxRetriesOf(config) + 1

C1_Witness ==
    /\ pc = "done"
    /\ settled.state = "rejected"
    /\ maxRetriesOf(config) >= 2
    /\ calls = maxRetriesOf(config) + 1

\* C2: if every invocation failed with a code of the retryable set, the
\* finished call made exactly N + 1 invocations and N waits and rejected
\* with the classified error of the last failure.
C2_AllRetryableFailures ==
    (pc = "done" /\ retryableFailures = calls) =>
        /\ calls = maxRetriesOf(config) + 1
        /\ Len(waits) = maxRetriesOf(config)
        /\ settled = [state |-> "rejected",
                      value |-> Some(wrapError(fnResult[1].value, None, None))]

\* C3: a failure whose classified code is not in the effective retryable set
\* rejects at once with the classified error: no invocation, wait or onRetry
\* call follows it, however many retries remain.
C3_NonRetryableRejectsAtOnce ==
    (wrappedError # None /\ wrappedError[1].code \notin retryableCodes(config)) =>
        /\ pc \in {"rejected", "done"}
        /\ settled = [state |-> "rejected", value |-> wrappedError]
        /\ wrappedError[1] = wrapError(fnResult[1].value, None, None)
        /\ calls = failures
        /\ Len(waits) = calls - 1
        /\ onRetryCount = (IF config.onRetry = None THEN 0 ELSE calls - 1)

C3_Witness ==
    /\ pc = "done"
    /\ wrappedError # None
    /\ wrappedError[1].code \notin retryableCodes(config)
    /\ calls = 2
    /\ maxRetriesOf(config) = 3
    /\ config.retryOn # None

\* C4: once an invocation succeeds withRetry resolves with that invocation's
\* value and nothing follows: after k failures the value is that of
\* invocation k + 1, with k waits and k onRetry calls (none for k = 0).
C4_SuccessResolvesAtOnce ==
    (settled.state = "fulfilled") =>
        /\ fnResult[1].ok
        /\ settled.value = Some(fnResult[1].value)
        /\ calls = failures + 1
        /\ Len(waits) = failures
        /\ onRetryCount = (IF config.onRetry = None THEN 0 ELSE failures)

C4_Witness ==
    /\ pc = "done"
    /\ settled.state = "fulfilled"
    /\ failures = 2
    /\ calls = 3
    /\ config.onRetry # None

\* C5: whenever withRetry rejects, the rejection value is the normalized
\* LLMProviderError that wrapError makes of the failure.
C5_RejectsWithWrappedError ==
    (settled.state = "rejected") =>
        /\ settled.value[1].kind = "LLMProviderError"
        /\ settled.value[1] = wrapError(fnResult[1].value, None, None)

\* C6: every re-invocation is preceded by one onRetry(k, classified error,
\* delay) call, k the 1-based number of the retry, and then by one wait of
\* that same delay; on a finished call the number of onRetry calls is the
\* number of invocations minus one.
C6_OnRetryThenWait ==
    /\ (pc = "sleep" /\ config.onRetry # None) =>
        /\ onRetryCount = calls
        /\ onRetryArgs = Some(<<calls, wrappedError[1], delay>>)
        /\ Len(waits) = calls - 1
    /\ (pc = "call" /\ calls > 0) =>
        /\ Len(waits) = calls
        /\ waits[calls] = delay
        /\ config.onRetry # None =>
            /\ onRetryCount = calls
            /\ onRetryArgs = Some(<<calls, wrappedError[1], delay>>)
    /\ (pc = "done" /\ config.onRetry # None) => onRetryCount = calls - 1

\* C9: when withRetryResult resolves, attempts is the number of invocations
\* of the operation, retried is attempts > 1 and result is the value of the
\* last invocation; when the retry fails it rejects and returns no metadata.
C9_RetryResultMetadata ==
    /\ retryResult # None =>
        /\ settled.state = "fulfilled"
        /\ fnResult[1].ok
        /\ retryResult[1].result = fnResult[1].value
        /\ retryResult[1].attempts = calls
        /\ retryResult[1].retried = (calls > 1)
    /\ (pc = "done" /\ settled.state = "fulfilled") => retryResult # None
    /\ (pc = "done" /\ settled.state = "rejected") => retryResult = None

C9_Witness ==
    /\ retryResult # None
    /\ retryResult[1].attempts = 3
    /\ retryResult[1].retried
    /\ calls = 3

\* C10: DEFAULT_RETRYABLE_CODES and isRetryableCode agree on every error
\* kind, so that under the default retryOn a failure with attempts left is
\* retried exactly when the classifier deems its code retryable.
C10_DefaultTablesAgree ==
    /\ \A c \in LLMErrorCode : (c \in DEFAULT_RETRYABLE_CODES) <=> isRetryableCode(c)
    /\ (config.retryOn = None /\ pc = "delay") =>
            isRetryableCode(wrappedError[1].code)
    /\ (/\ config.retryOn = None
        /\ pc = "rejected"
        /\ settled.value = wrappedError
        /\ attempt < maxRetriesOf(config)) =>
            ~isRetryableCode(wrappedError[1].code)

C10_Witness ==
    /\ config.retryOn = None
    /\ pc = "delay"
    /\ wrappedError[1].code = "SERVER_ERROR"
    /\ fnResult[1].value.kind = "LLMProviderError"

-----------------------------------------------------------------------------
(* The onRetry callback as an observer, checked under SpecObserver         *)

\* C7: for the same operation behaviour and the same delays, the
\* invocations, the waits and the result of withRetry are the same with an
\* onRetry callback, whatever it does, as without one.
C7_OnRetryIsAnObserver ==
    (pc = "done" /\ prev # None) => prev[1] = Observed

-----------------------------------------------------------------------------
(* calculateDelay, checked under SpecDelay                                 *)

\* C8: calculateDelay is min(maxDelay, baseDelay * 2^attempt * jitter) with
\* jitter in [0.5, 1.5): never above maxDelay, never below
\* min(maxDelay, baseDelay * 2^attempt / 2), and with jitter 1.0 exactly
\* min(maxDelay, baseDelay * 2^attempt).
C8_CalculateDelay ==
    (pc = "calculated") =>
        LET b == baseDelayOf(config)
            m == maxDelayOf(config)
            e == b * Pow2(attempt)
        IN  /\ delay <= m * Scale
            /\ 2 * delay >= Min(2 * m * Scale, e * Scale)
            /\ delay < m * Scale => 2 * delay < 3 * e * Scale
            /\ delay = Min(m * Scale, e * (RandSteps + 2 * rnd))
            /\ 2 * rnd = RandSteps =>
                /\ delay = Min(m, e) * Scale
                /\ (b = 100 /\ m = 10000 /\ attempt = 0) => delay = 100 * Scale
                /\ (b = 100 /\ m = 10000 /\ attempt = 1) => delay = 200 * Scale
                /\ (b = 100 /\ m = 10000 /\ attempt = 2) => delay = 400 * Scale
                /\ (b = 100 /\ m = 1000 /\ attempt = 10) => delay = 1000 * Scale

C8_Witness ==
    /\ pc = "calculated"
    /\ baseDelayOf(config) = 100
    /\ maxDelayOf(config) = 1000
    /\ attempt = 10
    /\ 2 * rnd = RandSteps
    /\ delay = 1000 * Scale

-----------------------------------------------------------------------------
(* Wire text.  A text is a sequence of symbols.  A symbol stands for a run *)
(* of characters that no chunk boundary falls inside; a boundary can fall  *)
(* between any two symbols, so inside a line, inside the `data: ` prefix   *)
(* and inside a JSON payload.                                              *)

NL == [c |-> "\n"]
SP == [c |-> " "]
DATA == [c |-> "data:"]
DONE == [c |-> "[DONE]"]
NULL == [c |-> "null"]
\* the text of a JSON object up to, and without, its closing brace: the
\* object is the event `name` of the wire format d, with the token s
OPEN(d, name, s) == [c |-> "{", d |-> d, name |-> name, s |-> s]
CLOSE == [c |-> "}"]

\* JSON and JavaScript values
JUndefined == [t |-> "undefined"]
JNull == [t |-> "null"]
JStr(s) == [t |-> "string", s |-> s]
JBool(b) == [t |-> "boolean", b |-> b]
JNum(n) == [t |-> "number", n |-> n]
JArr(a) == [t |-> "array", a |-> a]
JObj(f) == [t |-> "object", f |-> f]
EmptyObj == JObj(<<>>)

\* v.k, for a v that is neither null nor undefined
Get(v, k) ==
    IF v.t = "object" /\ k \in DOMAIN v.f THEN v.f[k] ELSE JUndefined

\* v?.k
OptGet(v, k) == IF v.t \in {"undefined", "null"} THEN JUndefined ELSE Get(v, k)

\* v?.[i]
OptAt(v, i) ==
    IF v.t = "array" /\ (i + 1) \in DOMAIN v.a THEN v.a[i + 1] ELSE JUndefined

\* if (v)
truthy(v) ==
    CASE v.t = "string" -> v.s # ""
      [] v.t = "boolean" -> v.b
      [] v.t = "number" -> v.n # 0
      [] v.t \in {"undefined", "null"} -> FALSE
      [] OTHER -> TRUE

\* a token event of each wire format
TokenDoc(d, s) ==
    CASE d = "openai" ->
            JObj([choices |->
                    JArr(<<JObj([delta |-> JObj([content |-> JStr(s)])])>>)])
      [] d = "google" ->
            JObj([candidates |->
                    JArr(<<JObj([content |->
                        JObj([parts |-> JArr(<<JObj([text |-> JStr(s)])>>)])
                    ])>>)])
      [] d = "relay" -> JObj([response |-> JStr(s)])

\* a well-formed event without a token: the finish_reason event of the
\* OpenAI format, a metadata-only event of the other two
NoTokenDoc(d) ==
    CASE d = "openai" ->
            JObj([choices |->
                    JArr(<<JObj([delta |-> EmptyObj,
                                 finish_reason |-> JStr("stop")])>>)])
      [] d = "google" -> JObj([usageMetadata |-> EmptyObj])
      [] d = "relay" -> JObj([usage |-> EmptyObj])

\* an event that carries s in another place than the token of its format:
\* as choices[0].text, or as the response field, where s may be null or a
\* number as well
FieldDoc(name, s) ==
    CASE name = "text" -> JObj([choices |-> JArr(<<JObj([text |-> JStr(s)])>>)])
      [] name = "response" -> JObj([response |-> JStr(s)])
      [] name = "nullResponse" -> JObj([response |-> JNull])
      [] name = "number" -> JObj([response |-> JNum(s)])

FieldNames == {"text", "response", "nullResponse", "number"}

\* JSON.parse(data): the value, or nothing when it throws a SyntaxError
JSONparse(data) ==
    IF Len(data) = 2 /\ data[1].c = "{" /\ data[2].c = CLOSE.c
    THEN IF data[1].name = "token"
         THEN Some(TokenDoc(data[1].d, data[1].s))
         ELSE IF data[1].name \in FieldNames
         THEN Some(FieldDoc(data[1].name, data[1].s))
         ELSE Some(NoTokenDoc(data[1].d))
    ELSE IF Len(data) = 1 /\ data[1].c = NULL.c THEN Some(JNull) ELSE None

\* buffer.split('\n')
RECURSIVE split(_)
split(text) ==
    LET newlines == {j \in DOMAIN text : text[j].c = NL.c}
    IN  IF newlines = {} THEN <<text>>
        ELSE LET i == CHOOSE j \in newlines : \A k \in newlines : j <= k
             IN  <<SubSeq(text, 1, i - 1)>>
                     \o split(SubSeq(text, i + 1, Len(text)))

\* line.trim()
RECURSIVE trim(_)
trim(line) ==
    IF line = <<>> THEN line
    ELSE IF line[1].c = SP.c THEN trim(Tail(line))
    ELSE IF line[Len(line)].c = SP.c
    THEN trim(SubSeq(line, 1, Len(line) - 1))
    ELSE line

\* trimmed.startsWith('data: ')
startsWithData(trimmed) ==
    Len(trimmed) >= 2 /\ trimmed[1].c = DATA.c /\ trimmed[2].c = SP.c

\* trimmed.slice(6), after startsWith('data: ')
slice6(trimmed) == SubSeq(trimmed, 3, Len(trimmed))

\* lines.pop() with the buffer dropped instead of carried over
dropCarryOver(lines) == <<>>

\* buffer = lines.pop() || ''
carryOver(lines) == lines[Len(lines)]

\* what is left in lines after lines.pop()
completeLines(lines) == SubSeq(lines, 1, Len(lines) - 1)

-----------------------------------------------------------------------------
(* The streaming decoders                                                  *)

GroqHandlers == {"gptOss120bHandler", "gptOss20bHandler",
                 "llama31InstantHandler", "llama33VersatileHandler"}
GeminiHandlers == {"gemini20FlashHandler", "gemini15FlashHandler"}
OpenAIDecoders == {"createGroqStream"} \cup GroqHandlers
GoogleDecoders == {"createGeminiStream"} \cup GeminiHandlers
CloudflareDecoders == {"callCloudflareRestStream", "createCloudflareStream"}
Decoders == OpenAIDecoders \cup GoogleDecoders \cup CloudflareDecoders

\* the decoders built from a TransformStream piped after the body
TransformDecoders == OpenAIDecoders \cup GoogleDecoders

\* the wire format of the provider a decoder reads from
dialect(kind) ==
    IF kind \in OpenAIDecoders THEN "openai"
    ELSE IF kind \in GoogleDecoders THEN "google" ELSE "relay"

\* parsed.choices?.[0]?.delta?.content
deltaContent(parsed) ==
    OptGet(OptGet(OptAt(Get(parsed, "choices"), 0), "delta"), "content")

\* parsed.choices?.[0]?.text
choiceText(parsed) == OptGet(OptAt(Get(parsed, "choices"), 0), "text")

\* parsed.candidates?.[0]?.content?.parts?.[0]?.text
partText(parsed) ==
    OptGet(OptAt(OptGet(OptGet(OptAt(Get(parsed, "candidates"), 0),
                               "content"), "parts"), 0), "text")

\* createGroqStream: let content = null; if ... else if ... else if ...
groqContent(parsed) ==
    IF deltaContent(parsed) # JUndefined THEN deltaContent(parsed)
    ELSE IF choiceText(parsed) # JUndefined THEN choiceText(parsed)
    ELSE IF Get(parsed, "response") # JUndefined THEN Get(parsed, "response")
    ELSE JNull

\* what the body of the try block enqueues or yields for a parsed payload
enqueued(kind, parsed, inFlush) ==
    CASE kind = "createGroqStream" ->
            IF truthy(groqContent(parsed)) THEN <<groqContent(parsed)>>
            ELSE <<>>
      [] kind \in GroqHandlers ->
            IF inFlush
            THEN IF truthy(deltaContent(parsed))
                 THEN <<deltaContent(parsed)>> ELSE <<>>
            ELSE IF deltaContent(parsed) \notin {JUndefined, JNull}
                 THEN <<deltaContent(parsed)>> ELSE <<>>
      [] kind \in GoogleDecoders ->
            IF truthy(partText(parsed)) THEN <<partText(parsed)>> ELSE <<>>
      [] kind = "callCloudflareRestStream" ->
            IF Get(parsed, "response") \notin {JUndefined, JStr("")}
            THEN <<Get(parsed, "response")>> ELSE <<>>
      [] kind = "createCloudflareStream" ->
            IF truthy(Get(parsed, "response"))
            THEN <<JObj([response |-> Get(parsed, "response")])>> ELSE <<>>

\* the try block without its catch: a SyntaxError of JSON.parse, or the
\* TypeError of reading a property of null, reaches the stream
tryParseUncaught(kind, data, inFlush) ==
    LET p == JSONparse(data)
    IN  IF p = None \/ p = Some(JNull)
        THEN [emit |-> <<>>, threw |-> TRUE]
        ELSE [emit |-> enqueued(kind, p[1], inFlush), threw |-> FALSE]

\* try { parsed = JSON.parse(data); ... } catch (e) { }
tryParse(kind, data, inFlush) ==
    LET p == JSONparse(data)
    IN  IF p = None \/ p = Some(JNull)
        THEN [emit |-> <<>>, threw |-> FALSE]
        ELSE [emit |-> enqueued(kind, p[1], inFlush), threw |-> FALSE]

\* a decoder that goes on to the next line at `[DONE]`, whichever it is
neverReturnsAtDone(kind) == FALSE

\* whether the decoder leaves its read loop at `[DONE]` (the others go on
\* to the next line)
returnsAtDone(kind) == kind \in CloudflareDecoders

\* the chunk createCloudflareStream enqueues at `[DONE]`
FinishedChunk == JObj([response |-> JStr(""), finished |-> JBool(TRUE)])

\* the body of `for (const line of lines)`, for one line
processLine(kind, line) ==
    LET trimmed == trim(line)
        data == slice6(trimmed)
    IN  IF trimmed = <<>> \/ ~startsWithData(trimmed)
        THEN [emit |-> <<>>, stop |-> FALSE, threw |-> FALSE]
        ELSE IF data = <<DONE>>
        THEN IF returnsAtDone(kind)
             THEN [emit |-> IF kind = "createCloudflareStream"
                            THEN <<FinishedChunk>> ELSE <<>>,
                   stop |-> TRUE, threw |-> FALSE]
             ELSE [emit |-> <<>>, stop |-> FALSE, threw |-> FALSE]
        ELSE LET r == tryParse(kind, data, FALSE)
             IN  [emit |-> r.emit, stop |-> FALSE, threw |-> r.threw]

\* for (const line of lines) { ... }
RECURSIVE processLines(_, _)
processLines(kind, lines) ==
    IF lines = <<>> THEN [emit |-> <<>>, stop |-> FALSE, threw |-> FALSE]
    ELSE LET first == processLine(kind, Head(lines))
         IN  IF first.stop \/ first.threw THEN first
             ELSE LET rest == processLines(kind, Tail(lines))
                  IN  [emit |-> first.emit \o rest.emit,
                       stop |-> rest.stop, threw |-> rest.threw]

\* transform(chunk, controller), and the body of the read loops of the
\* Cloudflare decoders, for one chunk
transform(kind, buf, chunk) ==
    LET lines == split(buf \o chunk)
        r == processLines(kind, completeLines(lines))
    IN  [buffer |-> carryOver(lines), emit |-> r.emit, stop |-> r.stop,
         threw |-> r.threw]

\* the decoders that have a flush(controller)
Flushing == {"createGroqStream", "gptOss120bHandler", "createGeminiStream"}

\* flush(controller); a decoder without one enqueues nothing at the end
flush(kind, buf) ==
    IF kind \in Flushing /\ startsWithData(trim(buf))
                         /\ slice6(trim(buf)) # <<DONE>>
    THEN tryParse(kind, slice6(trim(buf)), TRUE)
    ELSE [emit |-> <<>>, threw |-> FALSE]

-----------------------------------------------------------------------------
(* Response bodies: the events a provider sends, and their text            *)

\* largest number of events in a response body
MaxEvents == 2

Events ==
    {[e |-> "token", s |-> "Hello"], [e |-> "token", s |-> " world"],
     [e |-> "token", s |-> ""], [e |-> "done"], [e |-> "malformed"],
     [e |-> "null"], [e |-> "finish"], [e |-> "blank"]}

\* the line of an event, without its newline
Line(d, ev) ==
    CASE ev.e = "token" -> <<DATA, SP, OPEN(d, "token", ev.s), CLOSE>>
      [] ev.e = "done" -> <<DATA, SP, DONE>>
      [] ev.e = "malformed" -> <<DATA, SP, OPEN(d, "token", "Hello")>>
      [] ev.e = "null" -> <<DATA, SP, NULL>>
      [] ev.e = "finish" -> <<DATA, SP, OPEN(d, "finish", ""), CLOSE>>
      [] ev.e \in FieldNames -> <<DATA, SP, OPEN(d, ev.e, ev.s), CLOSE>>
      [] ev.e = "blank" -> <<>>

\* the text of a body: its lines, a newline after each one but, when the
\* body is not terminated, the last
RECURSIVE Wire(_, _, _)
Wire(d, evs, term) ==
    IF evs = <<>> THEN <<>>
    ELSE IF Len(evs) = 1
    THEN Line(d, evs[1]) \o (IF term THEN <<NL>> ELSE <<>>)
    ELSE Line(d, evs[1]) \o <<NL>> \o Wire(d, Tail(evs), term)

Bodies == UNION {[1 .. n -> Events] : n \in 0 .. MaxEvents}

Statuses == {200, 401, 500}
isOk(status) == status \in 200 .. 299

\* `${response.status}`
StatusText(status) ==
    CASE status = 200 -> "200" [] status = 401 -> "401" [] status = 500 -> "500"

ErrorTexts == {<<"Unauthorized">>, <<"Service", "unavailable">>}

Responses ==
    {[status |-> st, text |-> t] : st \in Statuses \ {200}, t \in ErrorTexts}
        \cup {[status |-> 200, text |-> <<>>]}

\* the message of the Error a streaming entry point throws for !response.ok
failedMessage(kind, status, text) ==
    CASE kind = "createGroqStream" ->
            <<"Groq", "streaming", "failed:", StatusText(status), "-">> \o text
      [] kind = "createGeminiStream" ->
            <<"Gemini", "streaming", "failed:", StatusText(status), "-">>
                \o text
      [] kind = "gptOss120bHandler" ->
            <<"GPT-OSS-120B", "streaming", "failed:", StatusText(status)>>
      [] kind = "gptOss20bHandler" ->
            <<"GPT-OSS-20B", "streaming", "failed:", StatusText(status)>>
      [] kind = "llama31InstantHandler" ->
            <<"Llama", "3.1", "8B", "streaming", "failed:",
              StatusText(status)>>
      [] kind = "llama33VersatileHandler" ->
            <<"Llama", "3.3", "70B", "streaming", "failed:",
              StatusText(status)>>
      [] kind = "gemini20FlashHandler" ->
            <<"Gemini", "2.0", "Flash", "streaming", "failed:",
              StatusText(status)>>
      [] kind = "gemini15FlashHandler" ->
            <<"Gemini", "1.5", "Flash", "streaming", "failed:",
              StatusText(status)>>
      [] kind \in CloudflareDecoders ->
            <<"Cloudflare", "API", "error:", StatusText(status)>> \o text

\* whether part occurs in message as a run of consecutive words
embeds(message, part) ==
    \E i \in 1 .. Len(message) - Len(part) + 1 :
        SubSeq(message, i, i + Len(part) - 1) = part

-----------------------------------------------------------------------------
(* One call of a streaming entry point, step by step                       *)

CredentialFields == {"openaiApiKey", "groqApiKey", "geminiApiKey",
                     "cloudflareApiKey", "cloudflareEmail",
                     "cloudflareAccountId"}

\* withRetry is not involved
RetryIdle ==
    /\ config = [maxRetries |-> None, baseDelay |-> None, maxDelay |-> None,
                 retryOn |-> None, onRetry |-> None, delayFn |-> None]
    /\ attempt = 0
    /\ fnResult = None
    /\ wrappedError = None
    /\ lastError = None
    /\ delay = 0
    /\ rnd = 0
    /\ attempts = 0
    /\ retryResult = None
    /\ now = 0
    /\ calls = 0
    /\ failures = 0
    /\ retryableFailures = 0
    /\ waits = <<>>
    /\ onRetryCount = 0
    /\ onRetryArgs = None
    /\ script = <<>>
    /\ randoms = <<>>
    /\ prev = None

\* nothing has been requested or read yet
NotStarted ==
    /\ pc = "call"
    /\ settled = Pending
    /\ requests = 0
    /\ decoder = "none"
    /\ body = <<>>
    /\ bodyReader = "none"
    /\ buffer = <<>>
    /\ out = <<>>
    /\ streamState = "none"
    /\ consumer = "none"
    /\ consumed = 0
    /\ lateReads = 0

\* the response the provider will give: an error status with a text, or
\* 200 with a body of events
AnyResponse ==
    /\ response \in {Some(r) : r \in Responses}
    /\ events \in (IF isOk(response[1].status) THEN Bodies ELSE {<<>>})
    /\ terminated \in (IF events = <<>> THEN {TRUE} ELSE BOOLEAN)

\* a decoder is called directly, with the credentials it needs
InitDecode ==
    /\ RetryIdle
    /\ NoUtility
    /\ NotStarted
    /\ entry \in Decoders
    /\ modelSpec = None
    /\ credentials = CredentialFields
    /\ AnyResponse

\* the entry point builds its request and awaits fetch(...)
Fetch ==
    /\ pc = "call"
    /\ entry \in Decoders
    /\ decoder' = entry
    /\ requests' = requests + 1
    /\ pc' = "fetch"
    /\ UNCHANGED <<settled, entry, modelSpec, credentials, response, events,
                   terminated, body, bodyReader, buffer, out, streamState,
                   consumer, consumed, lateReads>>
    /\ UNCHANGED retryVars
    /\ UNCHANGED utilVars

\* if (!response.ok) throw new Error(...): the call rejects; in
\* createCloudflareStream, and in the stream that stream() makes of
\* callCloudflareRestStream, the throw is caught and given to
\* controller.error, so that the consumer's read rejects with it
ResponseNotOk ==
    /\ pc = "fetch"
    /\ ~isOk(response[1].status)
    /\ settled' = [state |-> "rejected",
                   value |-> Some(NewError(failedMessage(decoder,
                                response[1].status, response[1].text)))]
    /\ streamState' = IF \/ decoder = "createCloudflareStream"
                         \/ entry = "stream" /\ decoder \in CloudflareDecoders
                      THEN "errored" ELSE streamState
    /\ pc' = "failed"
    /\ UNCHANGED <<entry, modelSpec, credentials, response, events,
                   terminated, requests, decoder, body, bodyReader, buffer,
                   out, consumer, consumed, lateReads>>
    /\ UNCHANGED retryVars
    /\ UNCHANGED utilVars

\* response.ok: the decoder takes the body and the consumer gets the stream
ResponseOk ==
    /\ pc = "fetch"
    /\ isOk(response[1].status)
    /\ body' = Wire(dialect(decoder), events, terminated)
    /\ bodyReader' = "locked"
    /\ streamState' = "readable"
    /\ consumer' = "reading"
    /\ pc' = "streaming"
    /\ UNCHANGED <<settled, entry, modelSpec, credentials, response, events,
                   terminated, requests, decoder, buffer, out, consumed,
                   lateReads>>
    /\ UNCHANGED retryVars
    /\ UNCHANGED utilVars

\* one read of the body delivers the next chunk, of any size, and the
\* decoder processes it.  After the consumer cancelled, controller.enqueue
\* and controller.close throw, which ends the read loop
ReadBody ==
    /\ pc = "streaming"
    /\ bodyReader = "locked"
    /\ body # <<>>
    /\ \E n \in 1 .. Len(body) :
        LET r == transform(decoder, buffer, SubSeq(body, 1, n))
        IN  /\ body' = SubSeq(body, n + 1, Len(body))
            /\ buffer' = r.buffer
            /\ IF consumer = "cancelled"
               THEN /\ out' = out
                    /\ streamState' = streamState
                    /\ pc' = IF r.emit # <<>> \/ r.stop THEN "ended" ELSE pc
               ELSE IF r.threw
               THEN /\ out' = out \o r.emit
                    /\ streamState' = "errored"
                    /\ pc' = "failed"
               ELSE /\ out' = out \o r.emit
                    /\ streamState' = IF r.stop THEN "closed" ELSE streamState
                    /\ pc' = IF r.stop THEN "ended" ELSE pc
    /\ lateReads' = lateReads + (IF consumer = "cancelled" THEN 1 ELSE 0)
    /\ UNCHANGED <<settled, entry, modelSpec, credentials, response, events,
                   terminated, requests, decoder, bodyReader, consumer,
                   consumed>>
    /\ UNCHANGED retryVars
    /\ UNCHANGED utilVars

\* the read of the body reports done: flush, if the decoder has one, and
\* the stream closes
BodyDone ==
    /\ pc = "streaming"
    /\ bodyReader = "locked"
    /\ body = <<>>
    /\ bodyReader' = "done"
    /\ LET f == flush(decoder, buffer)
       IN  IF consumer = "cancelled"
           THEN /\ out' = out
                /\ streamState' = streamState
                /\ pc' = "ended"
           ELSE IF f.threw
           THEN /\ out' = out
                /\ streamState' = "errored"
                /\ pc' = "failed"
           ELSE /\ out' = out \o f.emit
                /\ streamState' = "closed"
                /\ pc' = "ended"
    /\ lateReads' = lateReads + (IF consumer = "cancelled" THEN 1 ELSE 0)
    /\ UNCHANGED <<settled, entry, modelSpec, credentials, response, events,
                   terminated, requests, decoder, body, buffer, consumer,
                   consumed>>
    /\ UNCHANGED retryVars
    /\ UNCHANGED utilVars

NextDecode ==
    \/ Fetch
    \/ ResponseNotOk
    \/ ResponseOk
    \/ ReadBody
    \/ BodyDone

SpecDecode == InitDecode /\ [][NextDecode]_vars

-----------------------------------------------------------------------------
(* cloudflareStreamToText, chunk by chunk                                  *)

\* if (value.finished) { controller.close(); break; }
closesText(value) == truthy(Get(value, "finished"))

\* if (value.response !== undefined) controller.enqueue(value.response)
textOfChunkIfDefined(value) ==
    IF Get(value, "response") # JUndefined
    THEN <<Get(value, "response")>> ELSE <<>>

\* if (value.response) controller.enqueue(value.response)
textOfChunk(value) ==
    IF truthy(Get(value, "response")) THEN <<Get(value, "response")>> ELSE <<>>

\* the text stream cloudflareStreamToText makes of a stream of chunks
RECURSIVE cloudflareStreamToText(_)
cloudflareStreamToText(chunks) ==
    IF chunks = <<>> \/ closesText(Head(chunks)) THEN <<>>
    ELSE textOfChunk(Head(chunks)) \o cloudflareStreamToText(Tail(chunks))

\* the text a consumer of the decoder gets: the chunks of
\* createCloudflareStream are turned into text by cloudflareStreamToText
emittedText ==
    IF decoder = "createCloudflareStream" THEN cloudflareStreamToText(out)
    ELSE out

-----------------------------------------------------------------------------
(* Properties of the decoders, checked under SpecDecode                    *)

isPrefix(a, b) == Len(a) <= Len(b) /\ SubSeq(b, 1, Len(a)) = a

\* what a decoder emits for a text that arrives as a single chunk, followed
\* by the end of the body
decodeWhole(kind, text) ==
    LET r == transform(kind, <<>>, text)
    IN  IF r.stop THEN r.emit ELSE r.emit \o flush(kind, r.buffer).emit

\* the text of the response body
wireText == Wire(dialect(decoder), events, terminated)

decoding == pc \in {"streaming", "ended"} /\ isOk(response[1].status)

\* C11: whatever the chunks the text of the body arrives in, the decoder
\* emits what it emits for the same text in a single chunk: at any moment a
\* prefix of it, and all of it once the stream has closed.
C11_ChunkBoundariesDoNotMatter ==
    decoding =>
        /\ isPrefix(out, decodeWhole(decoder, wireText))
        /\ streamState = "closed" => out = decodeWhole(decoder, wireText)

\* a chunk ended inside the JSON payload of the second event, after the
\* first event gave its token
C11_Witness ==
    /\ decoding
    /\ Len(events) = 2
    /\ Len(out) = 1
    /\ Len(buffer) = 3
    /\ buffer[3].c = "{"
    /\ body # <<>>
    /\ body[1] = CLOSE

\* C12: when the body ends with a complete event that carries a non-empty
\* token and has no newline after it, the decoder emits, before the stream
\* closes, what it emits for the same body with the newline.
C12_LastEventWithoutNewlineIsDecoded ==
    (/\ decoding
     /\ streamState = "closed"
     /\ events # <<>>
     /\ ~terminated
     /\ events[Len(events)].e = "token"
     /\ events[Len(events)].s # "")
        => out = decodeWhole(decoder, Wire(dialect(decoder), events, TRUE))

\* the events before the first `[DONE]`
RECURSIVE beforeDone(_)
beforeDone(evs) ==
    IF evs = <<>> \/ Head(evs).e = "done" THEN <<>>
    ELSE <<Head(evs)>> \o beforeDone(Tail(evs))

hasDone(evs) == \E i \in DOMAIN evs : evs[i].e = "done"

\* the non-empty tokens of the token events among evs, in order
RECURSIVE nonEmptyTokens(_)
nonEmptyTokens(evs) ==
    IF evs = <<>> THEN <<>>
    ELSE (IF Head(evs).e = "token" /\ Head(evs).s # ""
          THEN <<JStr(Head(evs).s)>> ELSE <<>>) \o nonEmptyTokens(Tail(evs))

\* C13: a Cloudflare decoder reading a body with a `[DONE]` line emits the
\* non-empty response values of the events before the first `[DONE]`, in
\* order, and nothing else: at any moment a prefix of them, and all of them
\* once the stream has closed.
C13_CloudflareEmitsTheTokensBeforeDone ==
    (decoding /\ decoder \in CloudflareDecoders /\ hasDone(events)) =>
        /\ isPrefix(emittedText, nonEmptyTokens(beforeDone(events)))
        /\ streamState = "closed" =>
                emittedText = nonEmptyTokens(beforeDone(events))

\* `[DONE]` was read while a token event after it was still to come, and
\* the stream closed without reading it
C13_Witness ==
    /\ decoding
    /\ decoder \in CloudflareDecoders
    /\ streamState = "closed"
    /\ Len(events) = 2
    /\ events[1].e = "done"
    /\ events[2] = [e |-> "token", s |-> "Hello"]
    /\ body # <<>>
    /\ emittedText = <<>>

\* C14: an OpenAI-compatible or Google decoder reading a body with a
\* `[DONE]` line never emits more than it emits for the events before the
\* first `[DONE]`.
C14_NoTokenAfterDone ==
    (decoding /\ decoder \in TransformDecoders /\ hasDone(events)) =>
        isPrefix(out, decodeWhole(decoder, Wire(dialect(decoder),
                                                beforeDone(events), TRUE)))

\* evs with a blank line in the place of every event whose payload is not
\* JSON or is JSON that is not an object
RECURSIVE withoutMalformed(_)
withoutMalformed(evs) ==
    IF evs = <<>> THEN <<>>
    ELSE <<IF Head(evs).e \in {"malformed", "null"}
           THEN [e |-> "blank"] ELSE Head(evs)>>
             \o withoutMalformed(Tail(evs))

\* C16: a data line whose payload does not parse, or parses to something
\* other than an object, is decoded like a blank line: the stream never
\* errors, no call rejects, and the decoder emits what it emits for the same
\* body with a blank line in the place of every such line.
C16_MalformedLineIsSkipped ==
    (pc \in {"streaming", "ended", "failed"} /\ isOk(response[1].status)) =>
        /\ streamState # "errored"
        /\ settled = Pending
        /\ isPrefix(out, decodeWhole(decoder,
                Wire(dialect(decoder), withoutMalformed(events), terminated)))
        /\ streamState = "closed" =>
                out = decodeWhole(decoder,
                    Wire(dialect(decoder), withoutMalformed(events),
                         terminated))

\* a body of a malformed line and then a token event was read to its end,
\* and the token was emitted
C16_Witness ==
    /\ decoding
    /\ streamState = "closed"
    /\ Len(events) = 2
    /\ events[1].e = "malformed"
    /\ events[2] = [e |-> "token", s |-> "Hello"]
    /\ emittedText = <<JStr("Hello")>>

\* C19: after a response that is not ok, the call has failed with an error
\* whose message holds the status and the text of the response, nothing was
\* emitted, and one request was made.
C19_NotOkFailsWithStatusAndText ==
    (pc = "failed" /\ ~isOk(response[1].status)) =>
        /\ settled.state = "rejected"
        /\ embeds(settled.value[1].message,
                  <<StatusText(response[1].status)>>)
        /\ embeds(settled.value[1].message, response[1].text)
        /\ out = <<>>
        /\ requests = 1

-----------------------------------------------------------------------------
(* cloudflareStreamToText over a stream of chunks, read by read            *)

MaxChunks == 3

\* CloudflareStreamChunk values: response is a string, finished is optional
Chunks ==
    {JObj([response |-> JStr("Hello")]),
     JObj([response |-> JStr(" world")]),
     JObj([response |-> JStr("")]),
     JObj([response |-> JStr(""), finished |-> JBool(FALSE)]),
     JObj([response |-> JStr("Hello"), finished |-> JBool(TRUE)]),
     FinishedChunk}

ChunkStreams == UNION {[1 .. n -> Chunks] : n \in 0 .. MaxChunks}

\* cloudflareStreamToText(stream): start() takes the reader of the source
\* stream and calls pump().  `events` are the chunks the source will
\* deliver, `body` those not read yet; the source ends by closing
\* (terminated) or by failing
InitText ==
    /\ RetryIdle
    /\ NoUtility
    /\ pc = "pump"
    /\ settled = Pending
    /\ entry = "cloudflareStreamToText"
    /\ modelSpec = None
    /\ credentials = {}
    /\ response = None
    /\ events \in ChunkStreams
    /\ terminated \in BOOLEAN
    /\ requests = 0
    /\ decoder = "none"
    /\ body = events
    /\ bodyReader = "locked"
    /\ buffer = <<>>
    /\ out = <<>>
    /\ streamState = "readable"
    /\ consumer = "reading"
    /\ consumed = 0
    /\ lateReads = 0

\* const { done, value } = await reader.read() with done false
PumpRead ==
    /\ pc = "pump"
    /\ body # <<>>
    /\ body' = Tail(body)
    /\ IF closesText(Head(body))
       THEN /\ out' = out
            /\ streamState' = "closed"
            /\ pc' = "ended"
       ELSE /\ out' = out \o textOfChunk(Head(body))
            /\ streamState' = streamState
            /\ pc' = pc
    /\ UNCHANGED <<settled, entry, modelSpec, credentials, response, events,
                   terminated, requests, decoder, bodyReader, buffer,
                   consumer, consumed, lateReads>>
    /\ UNCHANGED retryVars
    /\ UNCHANGED utilVars

\* the read reports done: controller.close()
PumpDone ==
    /\ pc = "pump"
    /\ body = <<>>
    /\ terminated
    /\ bodyReader' = "done"
    /\ streamState' = "closed"
    /\ pc' = "ended"
    /\ UNCHANGED <<settled, entry, modelSpec, credentials, response, events,
                   terminated, requests, decoder, body, buffer, out,
                   consumer, consumed, lateReads>>
    /\ UNCHANGED retryVars
    /\ UNCHANGED utilVars

\* the read rejects: catch (error) { controller.error(error) }
PumpError ==
    /\ pc = "pump"
    /\ body = <<>>
    /\ ~terminated
    /\ bodyReader' = "errored"
    /\ streamState' = "errored"
    /\ pc' = "failed"
    /\ UNCHANGED <<settled, entry, modelSpec, credentials, response, events,
                   terminated, requests, decoder, body, buffer, out,
                   consumer, consumed, lateReads>>
    /\ UNCHANGED retryVars
    /\ UNCHANGED utilVars

NextText ==
    \/ PumpRead
    \/ PumpDone
    \/ PumpError

SpecText == InitText /\ [][NextText]_vars

\* the chunks read so far
chunksRead == SubSeq(events, 1, Len(events) - Len(body))

isFinished(chunk) ==
    "finished" \in DOMAIN chunk.f /\ chunk.f.finished = JBool(TRUE)

\* the chunks in front of the first one with finished: true
RECURSIVE untilFinished(_)
untilFinished(chunks) ==
    IF chunks = <<>> \/ isFinished(Head(chunks)) THEN <<>>
    ELSE <<Head(chunks)>> \o untilFinished(Tail(chunks))

hasText(chunk) == chunk.f.response # JStr("")

\* the response of each of the chunks
responsesOf(chunks) == [i \in DOMAIN chunks |-> chunks[i].f.response]

\* C15: cloudflareStreamToText emits the non-empty responses of the chunks
\* it read in front of the first chunk with finished: true, in order: a
\* chunk with an empty response and no finished flag yields no token, no
\* empty token is ever emitted, the first finished chunk closes the text
\* stream and yields no token, and no later chunk is read or yields one
C15_EmptyIsSuppressedAndFinishedCloses ==
    entry = "cloudflareStreamToText" =>
        /\ out = responsesOf(SelectSeq(untilFinished(chunksRead), hasText))
        /\ \A i \in DOMAIN out : out[i] # JStr("")
        /\ (\E i \in DOMAIN chunksRead : isFinished(chunksRead[i])) =>
              /\ streamState = "closed"
              /\ pc = "ended"
              /\ isFinished(chunksRead[Len(chunksRead)])
              /\ \A i \in 1 .. Len(chunksRead) - 1 : ~isFinished(chunksRead[i])

\* an empty response without the flag was read, then a finished chunk that
\* carries a text, and a chunk with a text is left unread
C15_Witness ==
    /\ entry = "cloudflareStreamToText"
    /\ pc = "ended"
    /\ streamState = "closed"
    /\ chunksRead = <<JObj([response |-> JStr("")]),
                      JObj([response |-> JStr("Hello"),
                            finished |-> JBool(TRUE)])>>
    /\ body = <<JObj([response |-> JStr(" world")])>>
    /\ out = <<>>

-----------------------------------------------------------------------------
(* stream() of the builder and generate(), from the call to the consumer   *)

Providers == {"openai", "groq", "gemini", "cloudflare"}

\* model ids: three with a per-model handler, one without
Models == {"openai/gpt-oss-120b", "openai/gpt-oss-20b", "gemini-2.0-flash",
           "gpt-4o"}

\* the result of parseModelSpec on a spec that parses
ModelSpecs == [provider : Providers, model : Models]

\* STREAM_HANDLERS.get(model)
getStreamHandler(model) ==
    CASE model = "openai/gpt-oss-120b" -> Some("gptOss120bHandler")
      [] model = "openai/gpt-oss-20b" -> Some("gptOss20bHandler")
      [] model = "llama-3.1-8b-instant" -> Some("llama31InstantHandler")
      [] model = "llama-3.3-70b-versatile" -> Some("llama33VersatileHandler")
      [] model = "gemini-2.0-flash" -> Some("gemini20FlashHandler")
      [] model = "gemini-1.5-flash" -> Some("gemini15FlashHandler")
      [] model = "gemini-1.5-flash-002" -> Some("gemini15FlashHandler")
      [] OTHER -> None

\* the credential fields a provider needs
requiredCredentials(provider) ==
    CASE provider = "openai" -> {"openaiApiKey"}
      [] provider = "groq" -> {"groqApiKey"}
      [] provider = "gemini" -> {"geminiApiKey"}
      [] provider = "cloudflare" ->
            {"cloudflareApiKey", "cloudflareEmail", "cloudflareAccountId"}

\* the message of the Error stream() throws before it requests anything,
\* if it does
streamThrows(provider, creds) ==
    CASE provider = "groq" ->
            IF "groqApiKey" \notin creds
            THEN Some(<<"groqApiKey", "is", "required", "for", "Groq",
                        "streaming">>)
            ELSE None
      [] provider = "gemini" ->
            IF "geminiApiKey" \notin creds
            THEN Some(<<"geminiApiKey", "is", "required", "for", "Gemini",
                        "streaming">>)
            ELSE None
      [] provider = "cloudflare" ->
            IF \/ "cloudflareApiKey" \notin creds
               \/ "cloudflareEmail" \notin creds
               \/ "cloudflareAccountId" \notin creds
            THEN Some(<<"Cloudflare", "credentials", "required", "for",
                        "streaming">>)
            ELSE None
      [] OTHER ->
            Some(<<"Streaming", "not", "supported", "for", "provider:",
                   provider>>)

\* the decoder stream() hands the request to
streamDecoder(provider, model) ==
    CASE provider = "groq" ->
            IF getStreamHandler(model) # None THEN getStreamHandler(model)[1]
            ELSE "createGroqStream"
      [] provider = "gemini" ->
            IF getStreamHandler(model) # None THEN getStreamHandler(model)[1]
            ELSE "createGeminiStream"
      [] provider = "cloudflare" -> "callCloudflareRestStream"

\* the message of the Error generate() throws before it requests anything,
\* if it does
generateThrows(provider, creds) ==
    CASE provider = "openai" ->
            IF "openaiApiKey" \notin creds
            THEN Some(<<"openaiApiKey", "is", "required", "for", "OpenAI",
                        "models">>)
            ELSE None
      [] provider = "groq" ->
            IF "groqApiKey" \notin creds
            THEN Some(<<"groqApiKey", "is", "required", "for", "Groq",
                        "models">>)
            ELSE None
      [] provider = "gemini" ->
            IF "geminiApiKey" \notin creds
            THEN Some(<<"geminiApiKey", "is", "required", "for", "Gemini",
                        "models">>)
            ELSE None
      [] provider = "cloudflare" ->
            IF /\ "cloudflareApiKey" \in creds
               /\ "cloudflareEmail" \in creds
               /\ "cloudflareAccountId" \in creds
            THEN None
            ELSE Some(<<"Cloudflare", "models", "require",
                        "cloudflareApiKey", ",", "cloudflareEmail", ",",
                        "and", "cloudflareAccountId">>)

\* the function generate() hands the request to
generateFunction(provider) ==
    CASE provider = "openai" -> "generateWithOpenAI"
      [] provider = "groq" -> "generateWithGroq"
      [] provider = "gemini" -> "generateWithGemini"
      [] provider = "cloudflare" -> "callCloudflareRest"

\* `${Provider} API error: ${response.status} ${text}`
apiErrorMessage(fn, status, text) ==
    <<CASE fn = "generateWithOpenAI" -> "OpenAI"
        [] fn = "generateWithGroq" -> "Groq"
        [] fn = "generateWithGemini" -> "Gemini"
        [] fn = "callCloudflareRest" -> "Cloudflare",
      "API", "error:", StatusText(status)>> \o text

\* the events of the bodies stream() is given here
FacadeEvents ==
    {[e |-> "token", s |-> "Hello"], [e |-> "token", s |-> " world"],
     [e |-> "token", s |-> ""], [e |-> "done"]}

FacadeBodies == UNION {[1 .. n -> FacadeEvents] : n \in 0 .. MaxEvents}

\* the content of a completion: a text, an empty text, or none
Completions ==
    {<<[e |-> "token", s |-> "Hello"]>>, <<[e |-> "token", s |-> ""]>>,
     <<[e |-> "finish"]>>}

\* result.choices?.[0]?.message?.content || "", and the like
completionText(evs) == IF evs[1].e = "token" THEN evs[1].s ELSE ""

\* stream() or generate() is called with a spec that parses and with
\* credentials of which some of the fields the provider needs may be absent
InitFacade ==
    /\ RetryIdle
    /\ NoUtility
    /\ NotStarted
    /\ entry \in {"stream", "generate"}
    /\ modelSpec \in {Some(m) : m \in ModelSpecs}
    /\ credentials \in {CredentialFields \ missing :
                          missing \in SUBSET requiredCredentials(
                                                 modelSpec[1].provider)}
    /\ response = None
    /\ events = <<>>
    /\ terminated = TRUE

\* stream(): a case of the switch throws, or the default does
StreamThrows ==
    /\ pc = "call"
    /\ entry = "stream"
    /\ streamThrows(modelSpec[1].provider, credentials) # None
    /\ settled' = [state |-> "rejected",
                   value |-> Some(NewError(
                       streamThrows(modelSpec[1].provider, credentials)[1]))]
    /\ pc' = "failed"
    /\ UNCHANGED <<entry, modelSpec, credentials, response, events,
                   terminated, requests, decoder, body, bodyReader, buffer,
                   out, streamState, consumer, consumed, lateReads>>
    /\ UNCHANGED retryVars
    /\ UNCHANGED utilVars

\* stream(): the handler of the model id, or the generic decoder of the
\* provider, is called and awaits fetch(...); the provider will answer with
\* an error status and a text, or with 200 and a body of events
StreamFetch ==
    /\ pc = "call"
    /\ entry = "stream"
    /\ streamThrows(modelSpec[1].provider, credentials) = None
    /\ decoder' = streamDecoder(modelSpec[1].provider, modelSpec[1].model)
    /\ requests' = requests + 1
    /\ \E r \in Responses :
        /\ response' = Some(r)
        /\ events' \in (IF isOk(r.status) THEN FacadeBodies ELSE {<<>>})
    /\ terminated' \in (IF events' = <<>> THEN {TRUE} ELSE BOOLEAN)
    /\ pc' = "fetch"
    /\ UNCHANGED <<settled, entry, modelSpec, credentials, body, bodyReader,
                   buffer, out, streamState, consumer, consumed, lateReads>>
    /\ UNCHANGED retryVars
    /\ UNCHANGED utilVars

\* generate(): a credential of the provider is absent
GenerateThrows ==
    /\ pc = "call"
    /\ entry = "generate"
    /\ generateThrows(modelSpec[1].provider, credentials) # None
    /\ settled' = [state |-> "rejected",
                   value |-> Some(NewError(
                       generateThrows(modelSpec[1].provider,
                                      credentials)[1]))]
    /\ pc' = "failed"
    /\ UNCHANGED <<entry, modelSpec, credentials, response, events,
                   terminated, requests, decoder, body, bodyReader, buffer,
                   out, streamState, consumer, consumed, lateReads>>
    /\ UNCHANGED retryVars
    /\ UNCHANGED utilVars

\* generate(): the function of the provider is called and awaits fetch(...)
GenerateFetch ==
    /\ pc = "call"
    /\ entry = "generate"
    /\ generateThrows(modelSpec[1].provider, credentials) = None
    /\ decoder' = generateFunction(modelSpec[1].provider)
    /\ requests' = requests + 1
    /\ \E r \in Responses :
        /\ response' = Some(r)
        /\ events' \in (IF isOk(r.status) THEN Completions ELSE {<<>>})
    /\ pc' = "fetchJson"
    /\ UNCHANGED <<settled, entry, modelSpec, credentials, terminated, body,
                   bodyReader, buffer, out, streamState, consumer, consumed,
                   lateReads>>
    /\ UNCHANGED retryVars
    /\ UNCHANGED utilVars

\* if (!response.ok) throw new Error(`... API error: ${status} ${text}`)
GenerateNotOk ==
    /\ pc = "fetchJson"
    /\ ~isOk(response[1].status)
    /\ settled' = [state |-> "rejected",
                   value |-> Some(NewError(apiErrorMessage(decoder,
                                response[1].status, response[1].text)))]
    /\ pc' = "failed"
    /\ UNCHANGED <<entry, modelSpec, credentials, response, events,
                   terminated, requests, decoder, body, bodyReader, buffer,
                   out, streamState, consumer, consumed, lateReads>>
    /\ UNCHANGED retryVars
    /\ UNCHANGED utilVars

\* return { text: ... || "", usage }
GenerateOk ==
    /\ pc = "fetchJson"
    /\ isOk(response[1].status)
    /\ settled' = [state |-> "fulfilled",
                   value |-> Some([text |-> completionText(events)])]
    /\ pc' = "ended"
    /\ UNCHANGED <<entry, modelSpec, credentials, response, events,
                   terminated, requests, decoder, body, bodyReader, buffer,
                   out, streamState, consumer, consumed, lateReads>>
    /\ UNCHANGED retryVars
    /\ UNCHANGED utilVars

\* the consumer's read delivers the next text that was enqueued
ConsumerRead ==
    /\ entry = "stream"
    /\ consumer = "reading"
    /\ streamState \in {"readable", "closed"}
    /\ consumed < Len(out)
    /\ consumed' = consumed + 1
    /\ UNCHANGED <<pc, settled, entry, modelSpec, credentials, response,
                   events, terminated, requests, decoder, body, bodyReader,
                   buffer, out, streamState, consumer, lateReads>>
    /\ UNCHANGED retryVars
    /\ UNCHANGED utilVars

\* the consumer's read reports done: the stream is closed and empty
ConsumerSeesEnd ==
    /\ entry = "stream"
    /\ consumer = "reading"
    /\ streamState = "closed"
    /\ consumed = Len(out)
    /\ consumer' = "ended"
    /\ UNCHANGED <<pc, settled, entry, modelSpec, credentials, response,
                   events, terminated, requests, decoder, body, bodyReader,
                   buffer, out, streamState, consumed, lateReads>>
    /\ UNCHANGED retryVars
    /\ UNCHANGED utilVars

\* the consumer's read rejects: the stream is errored
ConsumerSeesError ==
    /\ entry = "stream"
    /\ consumer \in {"none", "reading"}
    /\ streamState = "errored"
    /\ consumer' = "failed"
    /\ UNCHANGED <<pc, settled, entry, modelSpec, credentials, response,
                   events, terminated, requests, decoder, body, bodyReader,
                   buffer, out, streamState, consumed, lateReads>>
    /\ UNCHANGED retryVars
    /\ UNCHANGED utilVars

\* the consumer cancels its reader.  A pipeThrough chain passes the cancel
\* on to response.body; the ReadableStream that stream() builds around
\* callCloudflareRestStream has no cancel(), so that its start() goes on
\* reading
ConsumerCancel ==
    /\ entry = "stream"
    /\ consumer = "reading"
    /\ streamState = "readable"
    /\ consumer' = "cancelled"
    /\ streamState' = "closed"
    /\ IF decoder \in TransformDecoders
       THEN /\ bodyReader' = "cancelled"
            /\ pc' = "ended"
       ELSE /\ bodyReader' = bodyReader
            /\ pc' = pc
    /\ UNCHANGED <<settled, entry, modelSpec, credentials, response, events,
                   terminated, requests, decoder, body, buffer, out,
                   consumed, lateReads>>
    /\ UNCHANGED retryVars
    /\ UNCHANGED utilVars

NextFacade ==
    \/ StreamThrows
    \/ StreamFetch
    \/ ResponseNotOk
    \/ ResponseOk
    \/ ReadBody
    \/ BodyDone
    \/ GenerateThrows
    \/ GenerateFetch
    \/ GenerateNotOk
    \/ GenerateOk
    \/ ConsumerRead
    \/ ConsumerSeesEnd
    \/ ConsumerSeesError
    \/ ConsumerCancel

SpecFacade == InitFacade /\ [][NextFacade]_vars

-----------------------------------------------------------------------------
(* Properties of stream() and generate(), checked under SpecFacade         *)

\* the texts the consumer has read so far
consumerRead == SubSeq(out, 1, consumed)

\* C17: what a consumer reads from the stream of stream() is the sequence
\* of the non-empty tokens of the data events of the body, up to its
\* [DONE] if it has one, in the order of arrival: at any moment a prefix of
\* it, without a token reordered, duplicated or added, and all of it when
\* the consumer sees the end of the stream
C17_ConsumerReadsTheTokensInOrder ==
    (entry = "stream" /\ pc \in {"streaming", "ended"}) =>
        /\ isPrefix(consumerRead, nonEmptyTokens(beforeDone(events)))
        /\ consumer = "ended" =>
              consumerRead = nonEmptyTokens(beforeDone(events))

\* C18: once the consumer of the stream of stream() has cancelled its
\* reader, the reader of the response body is released, and the body is
\* not read again
C18_CancelReleasesTheBodyReader ==
    (entry = "stream" /\ consumer = "cancelled") =>
        /\ bodyReader # "locked"
        /\ lateReads = 0

\* C20: generate() and stream(), called while a credential field that the
\* provider needs is absent, fail without a request, with an error whose
\* message names every absent field
C20_MissingCredentialFailsNamingTheField ==
    (/\ entry \in {"stream", "generate"}
     /\ pc # "call"
     /\ ~(requiredCredentials(modelSpec[1].provider) \subseteq credentials))
        =>  /\ requests = 0
            /\ settled.state = "rejected"
            /\ \A f \in requiredCredentials(modelSpec[1].provider)
                            \ credentials :
                    embeds(settled.value[1].message, <<f>>)

\* the credential check of the call failed
missingCredential ==
    /\ entry \in {"stream", "generate"}
    /\ pc = "failed"
    /\ ~(requiredCredentials(modelSpec[1].provider) \subseteq credentials)

\* C21: the failure of generate() or stream() for an absent credential is
\* an AUTH failure: it is an LLMProviderError with code AUTH, or wrapError
\* (and so withRetry) gives it the code AUTH
C21_MissingCredentialIsAuth ==
    missingCredential =>
        wrapError(settled.value[1], None, None).code = "AUTH"

\* C22: every failure of generate() or stream() that reaches the caller is
\* a rejection with an LLMProviderError
C22_FailuresAreLLMProviderErrors ==
    (entry \in {"stream", "generate"} /\ settled.state = "rejected") =>
        settled.value[1].kind = "LLMProviderError"

-----------------------------------------------------------------------------
(* wrapError on its own: a thrown value is wrapped, and the result is      *)
(* wrapped again.  `store` is the heap: an object is its index in it       *)

\* largest number of keywords in the message of a thrown Error
MaxKeywords == 5

\* the patterns wrapError looks for, from the last one tested to the first
KeywordOrder ==
    <<"internal server", "500", "fetch failed", "enotfound", "econnrefused",
      "network", "403", "401", "api key", "authentication", "unauthorized",
      "timed out", "timeout", "429", "rate limit">>

Keywords == {KeywordOrder[i] : i \in DOMAIN KeywordOrder}

\* a spelling of a word that toLowerCase changes, where there is one
UpperWord(w) ==
    CASE w = "rate limit" -> "RATE LIMIT"
      [] w = "timeout" -> "Timeout"
      [] w = "timed out" -> "Timed Out"
      [] w = "unauthorized" -> "Unauthorized"
      [] w = "authentication" -> "Authentication"
      [] w = "api key" -> "API key"
      [] w = "network" -> "Network"
      [] w = "econnrefused" -> "ECONNREFUSED"
      [] w = "enotfound" -> "ENOTFOUND"
      [] w = "fetch failed" -> "Fetch Failed"
      [] w = "internal server" -> "Internal Server"
      [] w = "boom" -> "Boom"
      [] OTHER -> w

Reverse(seq) == [i \in DOMAIN seq |-> seq[Len(seq) + 1 - i]]

\* a message with the keywords ks: in lower case, the pattern tested first
\* in front, or in the other spelling and the other order
keywordMessage(ks, spelling) ==
    LET present(w) == w \in ks
        words == <<"boom">> \o SelectSeq(KeywordOrder, present)
    IN  IF spelling = "lower" THEN Reverse(words)
        ELSE [i \in DOMAIN words |-> UpperWord(words[i])]

KeywordSets == {ks \in SUBSET Keywords : Cardinality(ks) <= MaxKeywords}

\* what is given to wrapError: an LLMProviderError, an Error, or a value
\* that is no Error
RawErrors ==
    {[error |-> e, keywords |-> {}] : e \in ThrownLLMErrors \cup ThrownOthers}
    \cup {[error |-> NewError(keywordMessage(ks, sp)), keywords |-> ks] :
            ks \in KeywordSets, sp \in {"lower", "other"}}

WrapArguments ==
    {[provider |-> None, context |-> None],
     [provider |-> Some("groq"), context |-> Some("generate")]}

neverLLMProviderError(error) == FALSE

\* error instanceof LLMProviderError
isLLMProviderError(error) == error.kind = "LLMProviderError"

InitWrap ==
    /\ RetryIdle
    /\ NoStream
    /\ settled = Pending
    /\ pc = "wrap"
    /\ callee = "wrapError"
    /\ \E raw \in RawErrors, a \in WrapArguments :
        /\ input = <<[error |-> 1, raw |-> raw.error,
                      keywords |-> raw.keywords,
                      provider |-> a.provider, context |-> a.context]>>
        /\ store = Some(<<raw.error>>)
    /\ output = <<>>

\* wrapError(error, provider, context) on the object `ref` of the heap: the
\* object itself if it is an LLMProviderError, a new object otherwise
wrapCall(ref, a) ==
    LET heap == store[1]
        wrapped == wrapError(heap[ref], a.provider, a.context)
    IN  IF isLLMProviderError(heap[ref])
        THEN /\ store' = store
             /\ output' = Append(output, ref)
        ELSE /\ store' = Some(Append(heap, wrapped))
             /\ output' = Append(output, Len(heap) + 1)

\* wrapError(e, provider, context)
WrapError ==
    /\ pc = "wrap"
    /\ wrapCall(input[1].error, input[1])
    /\ pc' = "wrapped"
    /\ UNCHANGED <<settled, callee, input>>
    /\ UNCHANGED streamVars
    /\ UNCHANGED retryVars

\* wrapError(wrapError(e, ...), provider, context)
WrapAgain ==
    /\ pc = "wrapped"
    /\ \E a \in WrapArguments :
        /\ input' = Append(input, [error |-> output[1],
                                   raw |-> store[1][output[1]],
                                   keywords |-> {},
                                   provider |-> a.provider,
                                   context |-> a.context])
        /\ wrapCall(output[1], a)
    /\ pc' = "rewrapped"
    /\ UNCHANGED <<settled, callee>>
    /\ UNCHANGED streamVars
    /\ UNCHANGED retryVars

NextWrap ==
    \/ WrapError
    \/ WrapAgain

SpecWrap == InitWrap /\ [][NextWrap]_vars

-----------------------------------------------------------------------------
(* Properties of wrapError, checked under SpecWrap                         *)

\* the object a call of wrapError returned
returned(i) == store[1][output[i]]

\* C23: wrapError of an LLMProviderError returns that very object,
\* unmodified and without making another, whatever provider and context it
\* is given; so wrapError(wrapError(e)) is the object wrapError(e), for an
\* e of any kind
C23_WrapErrorReturnsAnLLMProviderErrorItself ==
    callee = "wrapError" =>
        /\ (pc \in {"wrapped", "rewrapped"}
                /\ input[1].raw.kind = "LLMProviderError") =>
              /\ output[1] = input[1].error
              /\ returned(1) = input[1].raw
        /\ pc = "rewrapped" =>
              /\ output[2] = output[1]
              /\ returned(2) = input[2].raw
              /\ Len(store[1]) = output[1]

\* an LLMProviderError was wrapped twice, with a provider and a context
C23_Witness ==
    /\ callee = "wrapError"
    /\ pc = "rewrapped"
    /\ input[1].raw.kind = "LLMProviderError"
    /\ input[1].raw.code = "AUTH"
    /\ input[1].provider = Some("groq")
    /\ input[2].context = Some("generate")
    /\ output = <<1, 1>>

\* the keyword classes in their order of priority
KeywordClasses ==
    <<[code |-> "RATE_LIMIT", keywords |-> {"rate limit", "429"}],
      [code |-> "TIMEOUT", keywords |-> {"timeout", "timed out"}],
      [code |-> "AUTH",
       keywords |-> {"unauthorized", "authentication", "api key", "401",
                     "403"}],
      [code |-> "NETWORK",
       keywords |-> {"network", "econnrefused", "enotfound",
                     "fetch failed"}],
      [code |-> "SERVER_ERROR", keywords |-> {"500", "internal server"}]>>

\* the code of the first class of which ks has a keyword
highestClass(ks) ==
    LET present == {i \in DOMAIN KeywordClasses :
                        KeywordClasses[i].keywords \cap ks # {}}
    IN  IF present = {} THEN "UNKNOWN"
        ELSE KeywordClasses[CHOOSE i \in present :
                                \A j \in present : i <= j].code

\* C24: for an Error, wrapError gives the code of the keyword class of
\* highest priority (RATE_LIMIT, TIMEOUT, AUTH, NETWORK, SERVER_ERROR) that
\* has a keyword in the message, in whatever case and order the keywords
\* are written, and UNKNOWN when the message has none
C24_HighestPriorityKeywordClass ==
    (callee = "wrapError" /\ pc \in {"wrapped", "rewrapped"}
        /\ input[1].raw.kind = "Error") =>
            returned(1).code = highestClass(input[1].keywords)

\* a message with a keyword of every class, the one of RATE_LIMIT last and
\* not in lower case
C24_Witness ==
    /\ callee = "wrapError"
    /\ pc = "wrapped"
    /\ input[1].raw.kind = "Error"
    /\ input[1].raw.message =
          <<"Boom", "500", "Fetch Failed", "403", "Timed Out", "RATE LIMIT">>
    /\ returned(1).code = "RATE_LIMIT"

\* C25: the LLMProviderError wrapError makes of a value that is no
\* LLMProviderError, an Error or not, has that value as its cause
C25_CauseIsPreserved ==
    (callee = "wrapError" /\ pc \in {"wrapped", "rewrapped"}
        /\ input[1].raw.kind # "LLMProviderError") =>
            returned(1).cause = Some(input[1].raw)

-----------------------------------------------------------------------------
(* statusToErrorCode on its own                                            *)

\* largest HTTP status explored
MaxStatus == 600

statusToErrorCodeWithout408(status) ==
    IF status = 429 THEN "RATE_LIMIT"
    ELSE IF status = 401 \/ status = 403 THEN "AUTH"
    ELSE IF status >= 500 THEN "SERVER_ERROR"
    ELSE "UNKNOWN"

statusToErrorCode(status) ==
    IF status = 429 THEN "RATE_LIMIT"
    ELSE IF status = 401 \/ status = 403 THEN "AUTH"
    ELSE IF status = 408 THEN "TIMEOUT"
    ELSE IF status >= 500 THEN "SERVER_ERROR"
    ELSE "UNKNOWN"

InitStatus ==
    /\ RetryIdle
    /\ NoStream
    /\ settled = Pending
    /\ pc = "status"
    /\ callee = "statusToErrorCode"
    /\ input \in {<<status>> : status \in 0 .. MaxStatus}
    /\ output = None
    /\ store = None

StatusToErrorCode ==
    /\ pc = "status"
    /\ output' = Some(statusToErrorCode(input[1]))
    /\ pc' = "returned"
    /\ UNCHANGED <<settled, callee, input, store>>
    /\ UNCHANGED streamVars
    /\ UNCHANGED retryVars

NextStatus == StatusToErrorCode

SpecStatus == InitStatus /\ [][NextStatus]_vars

\* C26: statusToErrorCode returns a code for every status: RATE_LIMIT for
\* 429, AUTH for 401 and 403, TIMEOUT for 408, SERVER_ERROR for every
\* status from 500 on, UNKNOWN for every other one
C26_StatusToErrorCode ==
    (callee = "statusToErrorCode" /\ pc = "returned") =>
        /\ output # None
        /\ output[1] \in LLMErrorCode
        /\ input[1] = 429 <=> output[1] = "RATE_LIMIT"
        /\ input[1] \in {401, 403} <=> output[1] = "AUTH"
        /\ input[1] = 408 <=> output[1] = "TIMEOUT"
        /\ input[1] >= 500 <=> output[1] = "SERVER_ERROR"
        /\ input[1] \in (0 .. 499) \ {401, 403, 408, 429}
              <=> output[1] = "UNKNOWN"

C26_Witness ==
    /\ callee = "statusToErrorCode"
    /\ pc = "returned"
    /\ input = <<408>>
    /\ output = Some("TIMEOUT")

-----------------------------------------------------------------------------
(* createModelSpec and parseModelSpec.  A string is a sequence of pieces:  *)
(* a provider name, another run of letters, a colon or a slash             *)

\* largest number of pieces of a spec string or of a model id
MaxSpecLen == 4

Pieces == Providers \cup {"llama", ":", "/"}

Strings(n) == UNION {[1 .. k -> Pieces] : k \in 0 .. n}

\* spec.lastIndexOf(":"), 0-based
lastIndexOf(str, piece) ==
    IF \E i \in DOMAIN str : str[i] = piece
    THEN (CHOOSE i \in DOMAIN str :
            str[i] = piece /\ \A j \in DOMAIN str : str[j] = piece => j <= i)
         - 1
    ELSE -1

\* spec.indexOf(":"), 0-based
indexOf(str, piece) ==
    IF \E i \in DOMAIN str : str[i] = piece
    THEN (CHOOSE i \in DOMAIN str :
            str[i] = piece /\ \A j \in DOMAIN str : str[j] = piece => i <= j)
         - 1
    ELSE -1

\* spec.slice(from, to) and spec.slice(from), 0-based
slice(str, from, to) == SubSeq(str, from + 1, to)

isProviderButOpenAI(provider) ==
    provider \in {<<"groq">>, <<"gemini">>, <<"cloudflare">>}

\* ["openai", "groq", "gemini", "cloudflare"].includes(provider)
isProvider(provider) ==
    provider \in {<<"openai">>, <<"groq">>, <<"gemini">>, <<"cloudflare">>}

\* `${provider}:${model}`
createModelSpec(provider, model) == <<provider, ":">> \o model

\* parseModelSpec(spec): what it returns, or the Error it throws
parseModelSpec(spec) ==
    LET colonIndex == indexOf(spec, ":")
        provider == slice(spec, 0, colonIndex)
        model == slice(spec, colonIndex + 1, Len(spec))
    IN  IF colonIndex = -1
        THEN [ok |-> FALSE,
              value |-> NewError(<<"Invalid", "ModelSpec:", "\"">> \o spec
                                 \o <<"\".", "Expected", "format:",
                                      "\"provider:model\"">>)]
        ELSE IF ~isProvider(provider)
        THEN [ok |-> FALSE,
              value |-> NewError(<<"Unknown", "provider:", "\"">> \o provider
                                 \o <<"\".", "Expected:", "openai", ",",
                                      "groq", ",", "gemini", ",", "or",
                                      "cloudflare">>)]
        ELSE IF model = <<>>
        THEN [ok |-> FALSE,
              value |-> NewError(<<"Model", "ID", "is", "required", "in",
                                   "spec:", "\"">> \o spec \o <<"\"">>)]
        ELSE [ok |-> TRUE,
              value |-> [provider |-> provider[1], model |-> model,
                         spec |-> spec]]

\* parseModelSpec is called with a string, or createModelSpec is called
\* with a provider and a model id that is not empty
InitModelSpec ==
    /\ RetryIdle
    /\ NoStream
    /\ settled = Pending
    /\ \/ /\ callee = "parseModelSpec"
          /\ pc = "parse"
          /\ input \in Strings(MaxSpecLen)
          /\ store = Some(input)
       \/ /\ callee = "createModelSpec"
          /\ pc = "create"
          /\ input \in [provider : Providers,
                        model : Strings(MaxSpecLen - 1) \ {<<>>}]
          /\ store = None
    /\ output = None

\* createModelSpec(provider, model); `store` holds the string made
CreateModelSpec ==
    /\ pc = "create"
    /\ store' = Some(createModelSpec(input.provider, input.model))
    /\ pc' = "parse"
    /\ UNCHANGED <<settled, callee, input, output>>
    /\ UNCHANGED streamVars
    /\ UNCHANGED retryVars

\* parseModelSpec(spec) on the string of `store`
ParseModelSpec ==
    /\ pc = "parse"
    /\ output' = Some(parseModelSpec(store[1]))
    /\ pc' = IF parseModelSpec(store[1]).ok THEN "parsed" ELSE "failed"
    /\ UNCHANGED <<settled, callee, input, store>>
    /\ UNCHANGED streamVars
    /\ UNCHANGED retryVars

NextModelSpec ==
    \/ CreateModelSpec
    \/ ParseModelSpec

SpecModelSpec == InitModelSpec /\ [][NextModelSpec]_vars

\* C27: parseModelSpec(createModelSpec(provider, model)) returns that
\* provider and that model, and the string created as spec, for every
\* provider and every model id that is not empty, a colon or a slash in it
\* or not
C27_CreateThenParseRoundTrip ==
    (callee = "createModelSpec" /\ pc \in {"parsed", "failed"}) =>
        /\ output[1].ok
        /\ output[1].value.provider = input.provider
        /\ output[1].value.model = input.model
        /\ output[1].value.spec = store[1]

\* a model id with a colon and a slash
C27_Witness ==
    /\ callee = "createModelSpec"
    /\ pc = "parsed"
    /\ input = [provider |-> "cloudflare", model |-> <<"llama", ":", "/">>]
    /\ output[1].value.model = <<"llama", ":", "/">>

-----------------------------------------------------------------------------
(* stream() of the builder from its call to the request it sends, the      *)
(* credentials being present.  A temperature is in tenths                  *)

\* MODEL_CONFIGS[model]
MODEL_CONFIGS(model) ==
    CASE model = "openai/gpt-oss-120b" ->
            Some([maxTokens |-> Some(4096), temperature |-> Some(7)])
      [] model = "openai/gpt-oss-20b" ->
            Some([maxTokens |-> Some(4096), temperature |-> Some(7)])
      [] model = "llama-3.1-8b-instant" ->
            Some([maxTokens |-> Some(2048), temperature |-> Some(7)])
      [] model = "llama-3.3-70b-versatile" ->
            Some([maxTokens |-> Some(2048), temperature |-> Some(7)])
      [] model = "mixtral-8x7b-32768" ->
            Some([maxTokens |-> Some(32768), temperature |-> Some(7)])
      [] model = "gemma2-9b-it" ->
            Some([maxTokens |-> Some(2048), temperature |-> Some(7)])
      [] OTHER -> None

\* a || b for an optional number a
orElse(a, b) == IF a = None \/ a[1] = 0 THEN b ELSE a[1]

\* a ?? b for an optional number a
nullish(a, b) == IF a = None THEN b ELSE a[1]

getModelConfig(model) ==
    LET modelConfig == IF MODEL_CONFIGS(model) # None THEN MODEL_CONFIGS(model)[1]
                  ELSE [maxTokens |-> None, temperature |-> None]
    IN  [maxTokens |-> orElse(modelConfig.maxTokens, 2048),
         temperature |-> orElse(modelConfig.temperature, 7)]

\* the model ids stream() is given here
RequestModels ==
    {"openai/gpt-oss-120b", "openai/gpt-oss-20b", "llama-3.1-8b-instant",
     "mixtral-8x7b-32768", "gemini-2.0-flash", "gpt-4o",
     "@cf/qwen/qwen2.5-coder-32b-instruct", "@cf/openai/gpt-oss-120b"}

\* model.includes("gpt-oss") and model.includes('qwen')
includesGptOss(model) ==
    model \in {"openai/gpt-oss-120b", "openai/gpt-oss-20b",
               "@cf/openai/gpt-oss-120b"}
includesQwen(model) == model = "@cf/qwen/qwen2.5-coder-32b-instruct"

\* the temperature and the token limit of the request body a decoder
\* builds; a field it does not send is None
requestBody(kind, model, options) ==
    CASE kind = "createGroqStream" ->
            [temperature |-> Some(nullish(options.temperature,
                                          getModelConfig(model).temperature)),
             max_tokens |-> Some(nullish(options.maxTokens,
                                         getModelConfig(model).maxTokens))]
      [] kind = "gptOss120bHandler" ->
            [temperature |-> Some(nullish(options.temperature, 7)),
             max_tokens |-> Some(nullish(options.maxTokens, 8192))]
      [] kind = "gptOss20bHandler" ->
            [temperature |-> Some(nullish(options.temperature, 7)),
             max_tokens |-> Some(nullish(options.maxTokens, 4096))]
      [] kind \in {"llama31InstantHandler", "llama33VersatileHandler"} ->
            [temperature |-> Some(nullish(options.temperature, 7)),
             max_tokens |-> Some(nullish(options.maxTokens, 2048))]
      [] kind \in GoogleDecoders ->
            [temperature |-> Some(nullish(options.temperature, 7)),
             max_tokens |-> Some(nullish(options.maxTokens, 2048))]
      [] kind = "callCloudflareRestStream" ->
            [temperature |-> None,
             max_tokens |-> IF ~includesGptOss(model) /\ includesQwen(model)
                            THEN Some(1024) ELSE None]

\* the host a decoder sends its request to
endpointOf(kind) ==
    IF kind \in OpenAIDecoders THEN "api.groq.com"
    ELSE IF kind \in GoogleDecoders THEN "generativelanguage.googleapis.com"
    ELSE "api.cloudflare.com"

\* the credential fields stream() hands to the decoder, which sends them
credentialsSent(provider) ==
    CASE provider = "groq" -> {"groqApiKey"}
      [] provider = "gemini" -> {"geminiApiKey"}
      [] provider = "cloudflare" ->
            {"cloudflareApiKey", "cloudflareEmail", "cloudflareAccountId"}

\* what the caller set with .temperature() and .maxTokens(), if anything
RequestOptions ==
    [temperature : {None, Some(0), Some(3)},
     maxTokens : {None, Some(0), Some(512)}]

InitRequest ==
    /\ RetryIdle
    /\ NoStream
    /\ settled = Pending
    /\ pc = "build"
    /\ callee = "stream"
    /\ input \in [provider : Providers, model : RequestModels,
                  options : RequestOptions]
    /\ output = None
    /\ store = None

\* stream() up to the fetch of the decoder it chose
BuildRequest ==
    /\ pc = "build"
    /\ LET thrown == streamThrows(input.provider, CredentialFields)
           kind == streamDecoder(input.provider, input.model)
       IN  IF thrown # None
           THEN /\ output' = Some([ok |-> FALSE, value |-> NewError(thrown[1])])
                /\ pc' = "failed"
           ELSE /\ output' = Some([ok |-> TRUE,
                                   value |-> [decoder |-> kind,
                                              endpoint |-> endpointOf(kind),
                                              sent |-> credentialsSent(
                                                  input.provider),
                                              body |-> requestBody(kind,
                                                  input.model,
                                                  input.options)]])
                /\ pc' = "requested"
    /\ UNCHANGED <<settled, callee, input, store>>
    /\ UNCHANGED streamVars
    /\ UNCHANGED retryVars

NextRequest == BuildRequest

SpecRequest == InitRequest /\ [][NextRequest]_vars

\* the configured value of a model id, or the documented default
configuredOr(model, field, default) ==
    IF MODEL_CONFIGS(model) # None THEN MODEL_CONFIGS(model)[1][field][1]
    ELSE default

\* C29: the request stream() builds has as max-tokens and temperature the
\* caller's option when it is given, otherwise the value configured for the
\* model id, otherwise 2048 and 0.7; stream() does not fail for a model id
\* without a configuration.  (A spec with provider openai fails whatever
\* the model id is, and is left out.)
C29_EffectiveRequestParameters ==
    (callee = "stream" /\ pc \in {"requested", "failed"}
        /\ input.provider # "openai") =>
            /\ output[1].ok
            /\ output[1].value.body.max_tokens =
                  Some(nullish(input.options.maxTokens,
                               configuredOr(input.model, "maxTokens", 2048)))
            /\ output[1].value.body.temperature =
                  Some(nullish(input.options.temperature,
                               configuredOr(input.model, "temperature", 7)))

-----------------------------------------------------------------------------
(* EdgeCache: a Map in insertion order with a capacity and a time to live. *)
(* store holds the object (cache, maxSize, ttl) and the clock Date.now()   *)
(* reads; callee, input and output are the last method called, its         *)
(* arguments and what it returned.  Observed beside the object: used, the  *)
(* stored keys from the least to the most recently used, and lastSet, for  *)
(* each key the time of its latest set unless the key was removed since    *)

MaxCacheSize == 2
MaxTime == 3
CacheKeys == {"key1", "key2", "key3"}
CacheValues == {"value1", "value2"}
CacheTtls == {1, 2}

\* Map.has, Map.get, Map.delete and Map.set of the entries, in insertion
\* order; Map.set of a key that is present keeps its place
mapHas(entries, key) == \E i \in 1..Len(entries) : entries[i].key = key
mapGet(entries, key) ==
    entries[CHOOSE i \in 1..Len(entries) : entries[i].key = key]
mapDelete(entries, key) == SelectSeq(entries, LAMBDA e : e.key # key)
mapSet(entries, key, value, timestamp) ==
    LET e == [key |-> key, value |-> value, timestamp |-> timestamp]
    IN  IF mapHas(entries, key)
        THEN [i \in 1..Len(entries) |->
                 IF entries[i].key = key THEN e ELSE entries[i]]
        ELSE Append(entries, e)

\* the same test with >= in place of >
isExpiredAtTtl(c, e) == c.now - e.timestamp >= c.ttl

\* Date.now() - entry.timestamp > this.ttl
isExpired(c, e) == c.now - e.timestamp > c.ttl

\* this.cache.size >= this.maxSize, and the same with > in place of >=
overCapacity(c) == Len(c.cache) > c.maxSize
atCapacity(c) == Len(c.cache) >= c.maxSize

\* each method gives the cache it leaves and the value it returns
\* (undefined is None)
cacheGet(c, key) ==
    IF ~mapHas(c.cache, key)
    THEN [cache |-> c.cache, returns |-> None]
    ELSE LET e == mapGet(c.cache, key)
         IN  IF isExpired(c, e)
             THEN [cache |-> mapDelete(c.cache, key), returns |-> None]
             ELSE [cache |-> Append(mapDelete(c.cache, key), e),
                   returns |-> Some(e.value)]

cacheSet(c, key, value) ==
    LET kept == IF atCapacity(c) /\ ~mapHas(c.cache, key) /\ c.cache # <<>>
                THEN Tail(c.cache) ELSE c.cache
    IN  [cache |-> mapSet(kept, key, value, c.now), returns |-> None]

cacheHas(c, key) ==
    [cache |-> cacheGet(c, key).cache,
     returns |-> Some(cacheGet(c, key).returns # None)]

cacheDelete(c, key) ==
    [cache |-> mapDelete(c.cache, key),
     returns |-> Some(mapHas(c.cache, key))]

cacheClear(c) == [cache |-> <<>>, returns |-> None]

cacheCleanup(c) ==
    LET kept == SelectSeq(c.cache, LAMBDA e : ~isExpired(c, e))
    IN  [cache |-> kept, returns |-> Some(Len(c.cache) - Len(kept))]

cacheSize(c) == [cache |-> c.cache, returns |-> Some(Len(c.cache))]

InitCache ==
    /\ RetryIdle
    /\ NoStream
    /\ settled = Pending
    /\ pc = "ready"
    /\ callee = "constructor"
    /\ input \in {<<maxSize, ttl>> : maxSize \in 1..MaxCacheSize,
                                     ttl \in CacheTtls}
    /\ output = None
    /\ store = Some([cache |-> <<>>, maxSize |-> input[1], ttl |-> input[2],
                     now |-> 0, used |-> <<>>,
                     lastSet |-> [key \in CacheKeys |-> None]])

\* the keys stored
keysOf(entries) == {entries[i].key : i \in 1..Len(entries)}

\* whether the call used its key: a get or has that found a value, or a set
isUse(method, did) ==
    \/ method = "set"
    \/ method = "get" /\ did.returns # None
    \/ method = "has" /\ did.returns = Some(TRUE)

\* the stored keys by their last use, after a call
usedAfter(c, method, arguments, did) ==
    LET moved == IF isUse(method, did)
                 THEN Append(SelectSeq(c.used, LAMBDA k : k # arguments[1]),
                             arguments[1])
                 ELSE c.used
    IN  SelectSeq(moved, LAMBDA k : k \in keysOf(did.cache))

\* the time of the latest set of each key that is still stored, after a call
lastSetAfter(c, method, arguments, did) ==
    [key \in CacheKeys |->
        IF key \notin keysOf(did.cache) THEN None
        ELSE IF method = "set" /\ arguments[1] = key THEN Some(c.now)
        ELSE c.lastSet[key]]

\* a method was called with these arguments and did this
Called(method, arguments, did) ==
    /\ pc = "ready"
    /\ callee' = method
    /\ input' = arguments
    /\ output' = did.returns
    /\ store' = Some([store[1] EXCEPT
                         !.cache = did.cache,
                         !.used = usedAfter(store[1], method, arguments, did),
                         !.lastSet = lastSetAfter(store[1], method, arguments,
                                                  did)])
    /\ UNCHANGED <<pc, settled>>
    /\ UNCHANGED streamVars
    /\ UNCHANGED retryVars

CacheGet == \E key \in CacheKeys :
    Called("get", <<key>>, cacheGet(store[1], key))

CacheSet == \E key \in CacheKeys, value \in CacheValues :
    Called("set", <<key, value>>, cacheSet(store[1], key, value))

CacheHas == \E key \in CacheKeys :
    Called("has", <<key>>, cacheHas(store[1], key))

CacheDelete == \E key \in CacheKeys :
    Called("delete", <<key>>, cacheDelete(store[1], key))

CacheClear == Called("clear", <<>>, cacheClear(store[1]))

CacheCleanup == Called("cleanup", <<>>, cacheCleanup(store[1]))

CacheSize == Called("size", <<>>, cacheSize(store[1]))

\* a millisecond passes between two calls
CacheTick ==
    /\ pc = "ready"
    /\ callee # "none"
    /\ store # None
    /\ store[1].now < MaxTime
    /\ store' = Some([store[1] EXCEPT !.now = @ + 1])
    /\ UNCHANGED <<pc, settled, callee, input, output>>
    /\ UNCHANGED streamVars
    /\ UNCHANGED retryVars

NextCache ==
    \/ CacheGet
    \/ CacheSet
    \/ CacheHas
    \/ CacheDelete
    \/ CacheClear
    \/ CacheCleanup
    \/ CacheSize
    \/ CacheTick

SpecCache == InitCache /\ [][NextCache]_vars

\* an EdgeCache is in use
isCache == pc = "ready" /\ callee # "none" /\ store # None

\* C30: an EdgeCache constructed with maxSize >= 1 never stores more than
\* maxSize entries, whatever was called on it, and size() returns the number
\* of entries stored
C30_SizeNeverExceedsMaxSize ==
    isCache =>
        /\ store[1].maxSize >= 1
        /\ cacheSize(store[1]).returns[1] <= store[1].maxSize
        /\ callee = "size" => output = Some(Len(store[1].cache))

\* a set of a third key into a full cache of two has left two entries
C30_Witness ==
    /\ isCache
    /\ callee = "set"
    /\ input = <<"key3", "value1">>
    /\ store[1].maxSize = 2
    /\ store[1].now = 2
    /\ store[1].cache = <<[key |-> "key2", value |-> "value2", timestamp |-> 1],
                          [key |-> "key3", value |-> "value1", timestamp |-> 2]>>

\* the step is a call of this method
isCall(method) ==
    /\ isCache
    /\ callee' = method
    /\ store'[1].now = store[1].now

\* C31: a set of a key that is absent into a cache at capacity evicts
\* exactly one entry, the least recently used one (a use of a key being a
\* get of it that returns a value or a set of it); a set of a key that is
\* present evicts nothing
C31_SetEvictsTheLeastRecentlyUsed ==
    [][isCall("set") =>
        LET c == store[1]
            key == input'[1]
            after == keysOf(store'[1].cache)
        IN  /\ (key \notin keysOf(c.cache) /\ Len(c.cache) >= c.maxSize) =>
                    after = (keysOf(c.cache) \ {c.used[1]}) \cup {key}
            /\ key \in keysOf(c.cache) => after = keysOf(c.cache)
      ]_vars

\* the entries of a cache that are older than its time to live
expiredOf(c) == {i \in 1..Len(c.cache) : c.now - c.cache[i].timestamp > c.ttl}

\* C32: get returns a value only for a key whose latest set was at most ttl
\* milliseconds ago and which was not removed since; a get that meets an
\* expired entry removes it; no call but a set changes the time an entry
\* counts from; cleanup removes exactly the expired entries and returns how
\* many they were
C32_TimeToLive ==
    [][LET c == store[1]
           after == store'[1]
       IN  /\ isCall("get") =>
                LET key == input'[1]
                IN  /\ output' # None =>
                         /\ c.lastSet[key] # None
                         /\ c.now - c.lastSet[key][1] <= c.ttl
                    /\ (\E i \in expiredOf(c) : c.cache[i].key = key) =>
                         key \notin keysOf(after.cache)
           /\ isCache =>
                \A i \in 1..Len(after.cache) :
                    after.lastSet[after.cache[i].key] =
                        Some(after.cache[i].timestamp)
           /\ isCall("cleanup") =>
                /\ after.cache =
                      SelectSeq(c.cache,
                                LAMBDA e : ~(c.now - e.timestamp > c.ttl))
                /\ output' = Some(Cardinality(expiredOf(c)))
      ]_vars

\* with a time to live of 1, cleanup at time 3 has removed one entry and
\* kept the one set at time 2
C32_Witness ==
    /\ isCache
    /\ callee = "cleanup"
    /\ output = Some(1)
    /\ store[1].ttl = 1
    /\ store[1].now = 3
    /\ store[1].cache = <<[key |-> "key2", value |-> "value1", timestamp |-> 2]>>

-----------------------------------------------------------------------------
(* StreamingBuffer: an array of chunks flushed when it grows over maxSize. *)
(* A string is the sequence of its characters.  store holds the object     *)
(* (buffer, maxSize, whether onFlush was given) and, observed: appended,   *)
(* every chunk appended, joined; flushed, what each flush returned;        *)
(* delivered, the argument of each onFlush call; cleared, whether clear    *)
(* discarded content; calls, the number of calls made                      *)

MaxBufferSize == 2
MaxCalls == 4
BufferChunks == {<<>>, <<"a">>, <<"b", "c">>, <<"d", "e", "f">>}

\* chunks.join("")
RECURSIVE join(_)
join(chunks) ==
    IF chunks = <<>> THEN <<>> ELSE Head(chunks) \o join(Tail(chunks))

\* this.buffer.reduce((sum, chunk) => sum + chunk.length, 0)
RECURSIVE getTotalLength(_)
getTotalLength(chunks) ==
    IF chunks = <<>> THEN 0 ELSE Len(Head(chunks)) + getTotalLength(Tail(chunks))

\* this.getTotalLength() > this.maxSize, and the same with >= in place of >
isFullAtMaxSize(b) == getTotalLength(b.buffer) >= b.maxSize
isOverMaxSize(b) == getTotalLength(b.buffer) > b.maxSize

\* flush(): the object it leaves and what it returns
bufferFlush(b) ==
    LET content == join(b.buffer)
    IN  [b EXCEPT !.buffer = <<>>,
                  !.flushed = Append(@, content),
                  !.delivered = IF b.onFlush THEN Append(@, content) ELSE @]

bufferAppend(b, chunk) ==
    LET pushed == [b EXCEPT !.buffer = Append(@, chunk),
                            !.appended = @ \o chunk]
    IN  IF isOverMaxSize(pushed) THEN bufferFlush(pushed) ELSE pushed

bufferClear(b) ==
    [b EXCEPT !.buffer = <<>>, !.cleared = @ \/ join(b.buffer) # <<>>]

InitBuffer ==
    /\ RetryIdle
    /\ NoStream
    /\ settled = Pending
    /\ pc = "buffering"
    /\ callee = "constructor"
    /\ input \in {<<maxSize, onFlush>> : maxSize \in 0..MaxBufferSize,
                                         onFlush \in BOOLEAN}
    /\ output = None
    /\ store = Some([buffer |-> <<>>, maxSize |-> input[1],
                     onFlush |-> input[2], appended |-> <<>>,
                     flushed |-> <<>>, delivered |-> <<>>,
                     cleared |-> FALSE, calls |-> 0])

\* a method of the buffer was called, left this object and returned this
BufferCalled(method, arguments, left, returns) ==
    /\ pc = "buffering"
    /\ store[1].calls < MaxCalls
    /\ callee' = method
    /\ input' = arguments
    /\ output' = returns
    /\ store' = Some([left EXCEPT !.calls = @ + 1])
    /\ UNCHANGED <<pc, settled>>
    /\ UNCHANGED streamVars
    /\ UNCHANGED retryVars

BufferAppend == \E chunk \in BufferChunks :
    BufferCalled("append", <<chunk>>, bufferAppend(store[1], chunk), None)

BufferFlush ==
    BufferCalled("flush", <<>>, bufferFlush(store[1]),
                 Some(join(store[1].buffer)))

BufferGetContent ==
    BufferCalled("getContent", <<>>, store[1], Some(join(store[1].buffer)))

BufferGetTotalLength ==
    BufferCalled("getTotalLength", <<>>, store[1],
                 Some(getTotalLength(store[1].buffer)))

BufferClear == BufferCalled("clear", <<>>, bufferClear(store[1]), None)

NextBuffer ==
    \/ BufferAppend
    \/ BufferFlush
    \/ BufferGetContent
    \/ BufferGetTotalLength
    \/ BufferClear

SpecBuffer == InitBuffer /\ [][NextBuffer]_vars

\* a StreamingBuffer is in use
isBuffer == pc = "buffering" /\ store # None

\* C33: an append flushes exactly when the chunks buffered, the new one
\* included, are longer than maxSize in total; the flush hands all of them,
\* joined in the order appended, to onFlush once and empties the buffer;
\* so after an append at most maxSize characters are buffered, and unless
\* clear discarded something, what was flushed followed by getContent() is
\* what was appended
C33_FlushWhenOverMaxSize ==
    [][isBuffer =>
        LET b == store[1]
            after == store'[1]
        IN  /\ callee' = "append" =>
                LET all == Append(b.buffer, input'[1])
                    over == Len(join(all)) > b.maxSize
                IN  /\ over <=> Len(after.flushed) = Len(b.flushed) + 1
                    /\ ~over => /\ after.flushed = b.flushed
                                /\ after.delivered = b.delivered
                                /\ after.buffer = all
                    /\ over => /\ after.flushed = Append(b.flushed, join(all))
                               /\ after.buffer = <<>>
                               /\ b.onFlush =>
                                    after.delivered =
                                        Append(b.delivered, join(all))
                    /\ Len(join(after.buffer)) <= after.maxSize
            /\ ~after.cleared =>
                  join(after.flushed) \o join(after.buffer) = after.appended
      ]_vars

\* a buffer of size 2 holding "a" was given "bc" and flushed "abc" to onFlush
C33_Witness ==
    /\ isBuffer
    /\ callee = "append"
    /\ input = <<(<<"b", "c">>)>>
    /\ store[1].maxSize = 2
    /\ store[1].onFlush
    /\ store[1].buffer = <<>>
    /\ store[1].delivered = << <<"a", "b", "c">> >>
    /\ store[1].appended = <<"a", "b", "c">>

-----------------------------------------------------------------------------
(* truncateMessages(messages, maxTokens, tokensPerChar).  A content is the *)
(* sequence of its characters; tokensPerChar is a fraction <<n, d>>        *)

MaxMessages == 3
MaxTokens == 4
Roles == {"system", "user", "assistant"}
Contents == {<<>>, <<"H", "i">>, <<"H", "e", "l", "l", "o">>}
TokensPerChar == {<<1, 4>>, <<1, 1>>}

\* the sequences over S of length n or less
SeqsUpTo(S, n) == UNION {[1..k -> S] : k \in 0..n}

\* Math.ceil(content.length * tokensPerChar)
tokensOf(content, tokensPerChar) ==
    LET n == Len(content) * tokensPerChar[1]
        d == tokensPerChar[2]
    IN  (n + d - 1) \div d

\* the for loop over the other messages, newest first: what it selects,
\* in the original order
RECURSIVE selectNewest(_, _, _, _)
selectNewest(others, totalTokens, maxTokens, tokensPerChar) ==
    IF others = <<>> THEN <<>>
    ELSE LET message == others[Len(others)]
             tokens == tokensOf(message.content, tokensPerChar)
         IN  IF totalTokens + tokens > maxTokens THEN <<>>
             ELSE Append(selectNewest(SubSeq(others, 1, Len(others) - 1),
                                      totalTokens + tokens, maxTokens,
                                      tokensPerChar),
                         [role |-> message.role, content |-> message.content,
                          tokens |-> tokens])

truncateMessages(messages, maxTokens, tokensPerChar) ==
    LET systems == SelectSeq(messages, LAMBDA m : m.role = "system")
        systemTokens == IF systems # <<>>
                        THEN tokensOf(systems[1].content, tokensPerChar)
                        ELSE 0
        otherMessages == SelectSeq(messages, LAMBDA m : m.role # "system")
        selectedOtherMessages ==
            selectNewest(otherMessages, systemTokens, maxTokens, tokensPerChar)
    IN  (IF systems # <<>>
         THEN <<[role |-> "system", content |-> systems[1].content,
                 tokens |-> systemTokens]>>
         ELSE <<>>) \o selectedOtherMessages

InitTruncate ==
    /\ RetryIdle
    /\ NoStream
    /\ settled = Pending
    /\ pc = "truncate"
    /\ callee = "truncateMessages"
    /\ input \in [messages : SeqsUpTo([role : Roles, content : Contents],
                                      MaxMessages),
                  maxTokens : 0..MaxTokens,
                  tokensPerChar : TokensPerChar]
    /\ output = None
    /\ store = None

TruncateMessages ==
    /\ pc = "truncate"
    /\ callee = "truncateMessages"
    /\ output' = Some(truncateMessages(input.messages, input.maxTokens,
                                       input.tokensPerChar))
    /\ pc' = "truncated"
    /\ UNCHANGED <<settled, callee, input, store>>
    /\ UNCHANGED streamVars
    /\ UNCHANGED retryVars

NextTruncate == TruncateMessages

SpecTruncate == InitTruncate /\ [][NextTruncate]_vars

\* the sum of the tokens fields
RECURSIVE sumTokens(_)
sumTokens(messages) ==
    IF messages = <<>> THEN 0
    ELSE messages[1].tokens + sumTokens(Tail(messages))

\* the messages without their tokens field
withoutTokens(messages) ==
    [i \in 1..Len(messages) |->
        [role |-> messages[i].role, content |-> messages[i].content]]

\* every returned message carries ceil(length * tokensPerChar) as tokens
tokensAreEstimates ==
    \A i \in 1..Len(output[1]) :
        output[1][i].tokens * input.tokensPerChar[2] >=
            Len(output[1][i].content) * input.tokensPerChar[1]
        /\ (output[1][i].tokens - 1) * input.tokensPerChar[2] <
            Len(output[1][i].content) * input.tokensPerChar[1]

\* the system message comes first, if there is one, and what follows is the
\* longest suffix of the other messages that fits beside it
systemThenLongestSuffix ==
    LET systems == SelectSeq(input.messages, LAMBDA m : m.role = "system")
        others == SelectSeq(input.messages, LAMBDA m : m.role # "system")
        head == IF systems # <<>> THEN 1 ELSE 0
        rest == SubSeq(output[1], head + 1, Len(output[1]))
        fits(k) == sumTokens(SubSeq(output[1], 1, head)) +
                   sumTokens([i \in 1..k |->
                       [tokens |-> (Len(others[Len(others) - k + i].content)
                                       * input.tokensPerChar[1]
                                       + input.tokensPerChar[2] - 1)
                                   \div input.tokensPerChar[2]]])
                       <= input.maxTokens
    IN  /\ Len(output[1]) >= head
        /\ systems # <<>> =>
              withoutTokens(<<output[1][1]>>) = <<systems[1]>>
        /\ withoutTokens(rest) =
              SubSeq(others, Len(others) - Len(rest) + 1, Len(others))
        /\ Len(rest) > 0 => fits(Len(rest))
        /\ \A k \in (Len(rest) + 1)..Len(others) : ~fits(k)

\* C34: the messages truncateMessages returns carry their estimated token
\* counts, which sum to maxTokens at most; the system message, if any, is
\* first, and the others are the longest fitting suffix of the non-system
\* messages, in their order
C34_TruncatedWithinMaxTokens ==
    (callee = "truncateMessages" /\ pc = "truncated") =>
        /\ tokensAreEstimates
        /\ sumTokens(output[1]) <= input.maxTokens
        /\ systemThenLongestSuffix

-----------------------------------------------------------------------------
(* Further properties of withRetry, checked under Spec                     *)

\* C35: withRetry invokes the operation again after a failure exactly when
\* the classified error is marked retryable: after a failure whose
\* LLMProviderError has retryable = false, whatever its code, the call
\* rejects and nothing follows; a call that rejects with an error whose
\* retryable is true has used all its attempts
C35_RetriesExactlyTheRetryable ==
    wrappedError # None =>
        /\ ~wrappedError[1].retryable =>
              /\ pc \in {"rejected", "done"}
              /\ settled = [state |-> "rejected", value |-> wrappedError]
        /\ (wrappedError[1].retryable /\ pc \in {"rejected", "done"}
                /\ settled.state = "rejected") =>
              calls = maxRetriesOf(config) + 1

-----------------------------------------------------------------------------
(* Further properties of stream(), checked under SpecFacade                *)

\* C36: stream() has a decoder for every provider parseModelSpec accepts:
\* called with the credentials of the provider of its spec it does not fail
\* with a "Streaming not supported for provider" error
C36_EveryProviderHasADecoder ==
    (/\ entry = "stream"
     /\ requiredCredentials(modelSpec[1].provider) \subseteq credentials
     /\ settled.state = "rejected")
        => ~embeds(settled.value[1].message,
                   <<"Streaming", "not", "supported">>)

-----------------------------------------------------------------------------
(* The waits of withRetry, checked under Spec                              *)

\* C37: every wait of withRetry between two attempts lasts config.maxDelay
\* at most, also when the config supplies a delayFn
C37_WaitsAreCappedByMaxDelay ==
    \A i \in 1 .. Len(waits) : waits[i] <= maxDelayOf(config) * Scale

-----------------------------------------------------------------------------
(* Where stream() sends the credentials, checked under SpecRequest         *)

\* the provider whose endpoint a host is
providerOfHost(host) ==
    CASE host = "api.openai.com" -> "openai"
      [] host = "api.groq.com" -> "groq"
      [] host = "generativelanguage.googleapis.com" -> "gemini"
      [] host = "api.cloudflare.com" -> "cloudflare"

\* C38: stream() sends a credential of a provider to that provider's own
\* endpoint only: the request of a spec with provider P goes to the host of
\* P and carries only fields of P, whatever the model id is
C38_CredentialsStayWithTheirProvider ==
    (callee = "stream" /\ pc = "requested") =>
        /\ providerOfHost(output[1].value.endpoint) = input.provider
        /\ output[1].value.sent \subseteq
              requiredCredentials(providerOfHost(output[1].value.endpoint))

-----------------------------------------------------------------------------
(* Two decoders given the same response body                               *)

\* the pairs compared: a per-model handler with the generic decoder of the
\* same format, and the two Cloudflare decoders
DecoderPairs ==
    {<<h, "createGroqStream">> : h \in GroqHandlers}
        \cup {<<"callCloudflareRestStream", "createCloudflareStream">>}

\* the events of the bodies compared, by wire format
CompareEvents(d) ==
    IF d = "openai"
    THEN {[e |-> "token", s |-> "Hello"], [e |-> "token", s |-> ""],
          [e |-> "text", s |-> "Hi"], [e |-> "response", s |-> "Hi"],
          [e |-> "finish"], [e |-> "done"]}
    ELSE {[e |-> "token", s |-> "Hello"], [e |-> "token", s |-> ""],
          [e |-> "nullResponse", s |-> ""], [e |-> "number", s |-> 0],
          [e |-> "number", s |-> 42], [e |-> "finish"], [e |-> "done"]}

\* the text a consumer gets from a decoder for a whole body
textOf(kind, text) ==
    IF kind = "createCloudflareStream"
    THEN cloudflareStreamToText(decodeWhole(kind, text))
    ELSE decodeWhole(kind, text)

InitCompare ==
    /\ RetryIdle
    /\ NoStream
    /\ settled = Pending
    /\ pc = "compare"
    /\ callee = "decodeBoth"
    /\ \E pair \in DecoderPairs :
        input \in [pair : {pair},
                   events : UNION {[1 .. n -> CompareEvents(dialect(pair[1]))] :
                                      n \in 0 .. MaxEvents},
                   terminated : BOOLEAN]
    /\ output = None
    /\ store = None

\* both decoders of the pair read the same text
DecodeBoth ==
    /\ pc = "compare"
    /\ callee = "decodeBoth"
    /\ LET text == Wire(dialect(input.pair[1]), input.events, input.terminated)
       IN  output' = Some(<<textOf(input.pair[1], text),
                            textOf(input.pair[2], text)>>)
    /\ pc' = "compared"
    /\ UNCHANGED <<settled, callee, input, store>>
    /\ UNCHANGED streamVars
    /\ UNCHANGED retryVars

NextCompare == DecodeBoth

SpecCompare == InitCompare /\ [][NextCompare]_vars

\* C39: for the same response body a per-model handler and createGroqStream
\* emit the same tokens: empty contents, the choices[0].text and response
\* fields and a last event without newline are treated alike
C39_HandlerDecodesLikeTheGenericDecoder ==
    (pc = "compared" /\ input.pair[2] = "createGroqStream") =>
        output[1][1] = output[1][2]

\* C40: for the same response body callCloudflareRestStream yields the text
\* that cloudflareStreamToText makes of createCloudflareStream, whether the
\* response field of an event is absent, null, empty or no string, and
\* whether the body ends with [DONE] or not
C40_CloudflareDecodersAgree ==
    (pc = "compared" /\ input.pair[2] = "createCloudflareStream") =>
        output[1][1] = output[1][2]

====
